---- MODULE Spec2Model ----
(***************************************************************************)
(* ChunkVault: the coordinator (app.py), the task runner (celery_app.py),  *)
(* the cache manager (cache.py) and the storage nodes (storage_node.py).   *)
(*                                                                         *)
(* The metadata store is modelled by its committed rows (files, chunks,    *)
(* replicas); the rows an upload has added to its own session and not yet  *)
(* committed live in the upload's record in `up`.  A storage node is       *)
(* modelled at the level of its handlers: a node that answers 200 to a     *)
(* POST has written the payload it was sent, a node that answers 200 to a  *)
(* GET returns the file it holds.  Which nodes answer a request is the     *)
(* environment's choice at every request.                                  *)
(***************************************************************************)
EXTENDS Integers, Sequences, FiniteSets, TLC

\* ------------------------------------------------------------- bounds
MaxLen == 3
MaxRedeliveries == 1
MaxCorruptions == 1
MaxRf == 4
MaxTime == 2
MaxGets == 3
MaxTtl == 2
MaxClock == 3
MaxSweeps == 2
MaxProbes == 2

\* ---------------------------------------------------- program constants
\* CHUNK_SIZE is 4 MiB in app.py; it is scaled so that a content of MaxLen
\* bytes has more than one chunk and a short last chunk.
CHUNK_SIZE == 2
\* MAX_CHUNK_SIZE of a storage node, scaled in the same way from 100 MiB.
MAX_CHUNK_SIZE == 2
\* The storage node whose handlers are modelled request by request.
NODE_ID == "n1"
REPLICATION_FACTOR == 3
STORAGE_NODES == {"n1", "n2", "n3"}

Users == {"alice", "bob"}

\* The users that upload; every user may download.
Uploaders == {"alice"}

\* A byte is either one that decodes as UTF-8 on its own ("a") or one that
\* never does ("ff").
Bytes == {"a", "ff"}

Contents == UNION {[1..n -> Bytes] : n \in 0..MaxLen}

Min(a, b) == IF a < b THEN a ELSE b

\* One file is followed.  No operation on a file reads a row, a task, a
\* stored chunk or a cache key of another file.
FileIds == {1}

\* A variant of ChunkCountOf that rounds down, against which the geometry
\* of the chunks is tried.
ChunkCountOf_Floor(size) == size \div CHUNK_SIZE

ChunkCountOf(size) == (size + CHUNK_SIZE - 1) \div CHUNK_SIZE

MaxChunks == ChunkCountOf(MaxLen)

\* uuid4 ids are unique; the chunk with index i of file f is named <<f, i>>.
ChunkIds == FileIds \X (0..(MaxChunks - 1))

ChunkSlice(data, i) ==
    SubSeq(data, i * CHUNK_SIZE + 1, Min(i * CHUNK_SIZE + CHUNK_SIZE, Len(data)))

\* hashlib.sha256(data).hexdigest(), taken to be collision free.
calculate_checksum(data) == <<"sha256", data>>

Quorum(rf) == rf \div 2 + 1

Put(f, k, v) == (k :> v) @@ f

Drop(f, k) == [x \in DOMAIN f \ {k} |-> f[x]]

Empty == [x \in {} |-> 0]

VARIABLES
    files,      \* committed File rows: file id -> row
    chunks,     \* committed Chunk rows: chunk id -> row
    replicas,   \* committed ChunkReplica rows: {<<chunk id, node>>}
    up,         \* upload requests: their position and their db session
    rtask,      \* replicate_chunk messages: chunk id -> args, deliveries, result
    vtask,      \* verify_file_integrity messages: file id -> deliveries, result
    blobs,      \* node -> (chunk id -> bytes on disk)
    fileMeta,   \* cache namespace file_metadata
    chunkCache, \* cache namespace chunk_data (raw bytes as stored in redis)
    dl,         \* the response of the last download_file call
    redelivered,\* how many task executions were re-deliveries or retries
    shares,     \* committed FileShare rows: share token -> row
    shareInfo,  \* cache namespace share_info
    now,        \* datetime.utcnow(), in hours
    sdl,        \* the response of the last download_shared_file call
    shareLog,   \* per share token: the GETs made and the GETs accepted
    userFiles,  \* cache namespace user_files: owner id -> cached listing
    lst,        \* the response of the last list_files call
    cacheDown,  \* the cache store raises on every command
    kv,         \* the cache store: key -> serialized value and expiry time
    kvClock,    \* the clock of the cache store, in seconds
    kvSet,      \* per key: the value and TTL of the last set that succeeded
    cmRes,      \* what the last call of a CacheManager method returned
    sweep,      \* cleanup_expired_shares: its runs and its last result
    nreq,       \* requests to one storage node: their position and answer
    lastStored, \* per chunk id: the payload of the last store that succeeded
    users,      \* committed User rows: user id -> row
    reg,        \* the response of the last register call
    healthy,    \* the storage nodes that are up (one that is up can still
                \* fail a request)
    retry,      \* per replicate_chunk message: the task state the worker
                \* recorded, request.retries and the countdown of the retry
    vfetched,   \* per file: chunk_data of each chunk in the last execution
                \* of verify_file_integrity
    nodesHealth,\* the cache store's entries for the node health snapshot:
                \* key -> string and TTL
    probe,      \* health_check_storage_nodes: its runs, what the nodes
                \* answered in the last run and its result
    hview,      \* storage_nodes in the response of the last GET /health
    sreq,       \* download_shared_file requests in progress: their position
    lreq        \* list_files requests in progress: their position and the
                \* rows they read

shareVars == <<shares, shareInfo, now, sdl, shareLog>>

listVars == <<userFiles, lst>>

nodeVars == <<nreq, lastStored>>

authVars == <<users, reg>>

probeVars == <<nodesHealth, probe, hview>>

raceVars == <<sreq, lreq>>

extVars == <<retry, vfetched, probeVars, raceVars>>

auxVars == <<cacheDown, kv, kvClock, kvSet, cmRes, sweep, nodeVars, authVars,
            healthy, extVars>>

vars == <<files, chunks, replicas, up, rtask, vtask, blobs, fileMeta,
          chunkCache, dl, redelivered, shareVars, listVars, auxVars>>

IdleUpload ==
    [pc |-> "idle", owner |-> "-", data |-> <<>>, i |-> 0, fstatus |-> "-",
     chs |-> Empty, reps |-> {}, code |-> 0, status |-> "-"]

\* code and err: the HTTP answer; parts: chunk_data_list, whose join is the
\* body; avail: every chunk's loop over its replica nodes found a node
\* that answered.
NoDownload ==
    [req |-> "-", code |-> 0, err |-> "-", parts |-> <<>>, avail |-> FALSE]

\* code and err: the HTTP answer; parts: chunk_data_list.
NoSharedDownload == [token |-> "-", code |-> 0, err |-> "-", parts |-> <<>>]

InitShares ==
    /\ shares = Empty
    /\ shareInfo = Empty
    /\ now = 0
    /\ sdl = NoSharedDownload
    /\ shareLog = Empty

\* body: the listing returned, kind "FileInfo" for the models built from
\* the rows, kind "str" for what json.loads gives back from the cache.
NoListing == [req |-> "-", body |-> [kind |-> "-", items |-> Empty]]

InitLists ==
    /\ userFiles = Empty
    /\ lst = NoListing

NoneVal == [kind |-> "none", val |-> <<>>]

\* The requests a storage node handles at the same time.
Requests == {"r1", "r2"}

\* code: the HTTP answer; body: the bytes of a retrieve; checksum and size:
\* the fields of the answer of a store or of an info; before: the file of
\* the chunk id when the request arrived.
NoRequest ==
    [op |-> "-", id |-> <<0, 0>>, data |-> <<>>, pc |-> "idle", code |-> 0,
     body |-> <<>>, checksum |-> <<"-", <<>>>>, size |-> 0, before |-> NoneVal]

NoCall == [op |-> "-", key |-> "-", ok |-> FALSE, val |-> [kind |-> "-"]]

\* A download_shared_file request: the token, share_record and whether it
\* is the row of the session, whether the GET was accepted (share found
\* and not expired), and the answer.
NoSharedRequest ==
    [pc |-> "idle", token |-> "-", attached |-> FALSE,
     share_record |-> [file_id |-> 0, owner |-> "-",
                       expires_at |-> [kind |-> "none", t |-> 0],
                       access_count |-> 0],
     accepted |-> FALSE, code |-> 0]

\* A list_files request: the caller, file_list as the query returned it,
\* and the listing returned.
NoListRequest ==
    [pc |-> "idle", req |-> "-", file_list |-> [kind |-> "-", items |-> Empty],
     body |-> [kind |-> "-", items |-> Empty]]

InitRest ==
    /\ cacheDown = FALSE
    /\ kv = Empty
    /\ kvClock = 0
    /\ kvSet = Empty
    /\ cmRes = NoCall
    /\ sweep = [runs |-> 0, expired_shares_removed |-> 0]
    /\ nreq = [r \in Requests |-> NoRequest]
    /\ lastStored = Empty
    /\ users = Empty
    /\ reg = [username |-> "-", email |-> "-", code |-> 0, user_id |-> 0]
    /\ retry = Empty
    /\ vfetched = Empty
    /\ nodesHealth = Empty
    /\ probe = [runs |-> 0, answers |-> Empty, status |-> "-",
                node_status |-> Empty]
    /\ hview = [source |-> "-", nodes |-> Empty]
    /\ sreq = [r \in Requests |-> NoSharedRequest]
    /\ lreq = [r \in Requests |-> NoListRequest]

\* Every storage node is up.
InitAux ==
    /\ InitRest
    /\ healthy = STORAGE_NODES

Hit_Raw(ns, k) == k \in DOMAIN ns

\* CacheManager.get(key) found a value: a command that raises is caught
\* inside get and None is returned.
Hit(ns, k) == ~cacheDown /\ k \in DOMAIN ns

\* The namespace after CacheManager.set(key, value): a command that raises
\* is caught inside set and nothing is written.
CacheSet(ns, k, v) == IF cacheDown THEN ns ELSE Put(ns, k, v)

\* The namespace after CacheManager.delete(key).
CacheDelete(ns, k) == IF cacheDown THEN ns ELSE Drop(ns, k)

InitStore ==
    /\ files = Empty
    /\ chunks = Empty
    /\ replicas = {}
    /\ up = [u \in FileIds |-> IdleUpload]
    /\ rtask = Empty
    /\ vtask = Empty
    /\ blobs = [n \in STORAGE_NODES |-> Empty]
    /\ fileMeta = Empty
    /\ chunkCache = Empty
    /\ dl = NoDownload
    /\ redelivered = 0

Init ==
    /\ InitShares
    /\ InitLists
    /\ InitAux
    /\ InitStore

\* ------------------------------------------------------------ upload

\* random.sample(STORAGE_NODES, min(REPLICATION_FACTOR, len(STORAGE_NODES)))
assign_storage_nodes ==
    {S \in SUBSET STORAGE_NODES :
        Cardinality(S) = Min(REPLICATION_FACTOR, Cardinality(STORAGE_NODES))}

\* replicate_chunk.delay(chunk_id, chunk_data, storage_nodes, REPLICATION_FACTOR):
\* the message (data, nodes, rf), the number of times it was executed, and
\* what its last execution did (the nodes it posted to, whether it raised)
\* and the result it last returned.
NewTask(data, nodes) ==
    [data |-> data, nodes |-> nodes, rf |-> REPLICATION_FACTOR, runs |-> 0,
     posted |-> {}, raised |-> FALSE, status |-> "-", success_count |-> 0,
     failed_nodes |-> {}]

\* The loop body of upload_file up to the wait in store_chunk_to_nodes: the
\* Chunk row with index i is added to the session as pending and its task is
\* sent.  A broker error in delay() is caught by store_chunk_to_nodes, which
\* then returns False: the chunk and the file are marked failed.
StartChunk(u, s, i) ==
    \/ \E nodes \in assign_storage_nodes :
          /\ rtask' = Put(rtask, <<u, i>>, NewTask(ChunkSlice(s.data, i), nodes))
          /\ up' = [up EXCEPT ![u] =
                      [s EXCEPT !.pc = "await", !.i = i,
                                !.chs = Put(s.chs, i, "pending")]]
    \/ /\ rtask' = rtask
       /\ up' = [up EXCEPT ![u] =
                   [s EXCEPT !.pc = "commit", !.i = i, !.fstatus = "failed",
                             !.chs = Put(s.chs, i, "failed")]]

\* upload_file from the read of the body to the first wait.
UploadStart(u) ==
    /\ up[u].pc = "idle"
    /\ \A v \in FileIds : v < u => up[v].pc # "idle"
    /\ \E owner \in Uploaders, data \in Contents :
          LET s == [IdleUpload EXCEPT !.owner = owner, !.data = data,
                                      !.fstatus = "uploading"]
          IN  IF ChunkCountOf(Len(data)) = 0
              THEN /\ up' = [up EXCEPT ![u] = [s EXCEPT !.pc = "finish"]]
                   /\ rtask' = rtask
              ELSE StartChunk(u, s, 0)
    /\ UNCHANGED <<files, chunks, replicas, vtask, blobs, fileMeta,
                   chunkCache, dl, redelivered>>
    /\ UNCHANGED <<shareVars, listVars, auxVars>>

\* A variant of AfterChunk that marks a chunk that was not stored as failed
\* and goes on to complete the file, against which the outcome of an upload
\* is tried.
AfterChunk_Lenient(u, success) ==
    LET s == up[u]
        nodes == rtask[<<u, s.i>>].nodes
        t == IF success
             THEN [s EXCEPT !.chs = Put(s.chs, s.i, "stored"),
                            !.reps = s.reps \cup {<<<<u, s.i>>, n>> : n \in nodes}]
             ELSE [s EXCEPT !.chs = Put(s.chs, s.i, "failed")]
    IN  IF s.i + 1 < ChunkCountOf(Len(s.data))
        THEN StartChunk(u, t, s.i + 1)
        ELSE /\ up' = [up EXCEPT ![u] = [t EXCEPT !.pc = "finish"]]
             /\ rtask' = rtask

\* A variant of AfterChunk that, when a chunk was not stored, drops from the
\* session the chunks stored before it and their Replica rows, against
\* which the partial-write policy is tried.
AfterChunk_Rollback(u, success) ==
    LET s == up[u]
        nodes == rtask[<<u, s.i>>].nodes
    IN  IF success
        THEN LET t == [s EXCEPT !.chs = Put(s.chs, s.i, "stored"),
                                !.reps = s.reps \cup {<<<<u, s.i>>, n>> : n \in nodes}]
             IN  IF s.i + 1 < ChunkCountOf(Len(s.data))
                 THEN StartChunk(u, t, s.i + 1)
                 ELSE /\ up' = [up EXCEPT ![u] = [t EXCEPT !.pc = "finish"]]
                      /\ rtask' = rtask
        ELSE /\ up' = [up EXCEPT ![u] =
                         [s EXCEPT !.pc = "commit", !.fstatus = "failed",
                                   !.chs = (s.i :> "failed"), !.reps = {}]]
             /\ rtask' = rtask

\* What upload_file does with the outcome of store_chunk_to_nodes for chunk i.
AfterChunk(u, success) ==
    LET s == up[u]
        nodes == rtask[<<u, s.i>>].nodes
    IN  IF success
        THEN LET t == [s EXCEPT !.chs = Put(s.chs, s.i, "stored"),
                                !.reps = s.reps \cup {<<<<u, s.i>>, n>> : n \in nodes}]
             IN  IF s.i + 1 < ChunkCountOf(Len(s.data))
                 THEN StartChunk(u, t, s.i + 1)
                 ELSE /\ up' = [up EXCEPT ![u] = [t EXCEPT !.pc = "finish"]]
                      /\ rtask' = rtask
        ELSE /\ up' = [up EXCEPT ![u] =
                         [s EXCEPT !.pc = "commit", !.fstatus = "failed",
                                   !.chs = Put(s.chs, s.i, "failed")]]
             /\ rtask' = rtask

\* task.get(timeout=60) returns the task's result.
UploadTaskReturned(u) ==
    /\ up[u].pc = "await"
    /\ rtask[<<u, up[u].i>>].status # "-"
    /\ AfterChunk(u, rtask[<<u, up[u].i>>].status = "stored")
    /\ UNCHANGED <<files, chunks, replicas, vtask, blobs, fileMeta,
                   chunkCache, dl, redelivered>>
    /\ UNCHANGED <<shareVars, listVars, auxVars>>

\* A variant of UploadTaskTimeout that takes the chunk as stored when the
\* deadline passes, against which the deadline rule is tried.
UploadTaskTimeout_Success(u) ==
    /\ up[u].pc = "await"
    /\ rtask[<<u, up[u].i>>].status = "-"
    /\ AfterChunk(u, TRUE)
    /\ UNCHANGED <<files, chunks, replicas, vtask, blobs, fileMeta,
                   chunkCache, dl, redelivered>>
    /\ UNCHANGED <<shareVars, listVars, auxVars>>

\* task.get(timeout=60) raises: no result within the deadline.
UploadTaskTimeout(u) ==
    /\ up[u].pc = "await"
    /\ rtask[<<u, up[u].i>>].status = "-"
    /\ AfterChunk(u, FALSE)
    /\ UNCHANGED <<files, chunks, replicas, vtask, blobs, fileMeta,
                   chunkCache, dl, redelivered>>
    /\ UNCHANGED <<shareVars, listVars, auxVars>>


\* verify_file_integrity.delay(file_id): the number of times the message was
\* executed and what its last execution returned (status and, of
\* corrupted_chunks, the chunks with a checksum mismatch and the chunks with
\* the error chunk_not_found).
NewVerify == [runs |-> 0, status |-> "-", mismatch |-> {}, not_found |-> {}]

\* The tail of upload_file on the path where no chunk failed: the File becomes
\* completed and verify_file_integrity.delay(file_id) is sent before the
\* commit.  If delay() raises, the handler rolls back and answers 500.
UploadFinish(u) ==
    /\ up[u].pc = "finish"
    /\ \/ /\ vtask' = Put(vtask, u, NewVerify)
          /\ up' = [up EXCEPT ![u].pc = "commit", ![u].fstatus = "completed"]
       \/ /\ vtask' = vtask
          /\ up' = [up EXCEPT ![u].pc = "done", ![u].fstatus = "-",
                              ![u].chs = Empty, ![u].reps = {},
                              ![u].code = 500]
    /\ UNCHANGED <<files, chunks, replicas, rtask, blobs, fileMeta,
                   chunkCache, dl, redelivered>>
    /\ UNCHANGED <<shareVars, listVars, auxVars>>

FileRow(u, s) ==
    [owner |-> s.owner, size |-> Len(s.data),
     checksum |-> calculate_checksum(s.data),
     chunk_count |-> ChunkCountOf(Len(s.data)), status |-> s.fstatus]

ChunkRow(u, s, i) ==
    [file_id |-> u, chunk_index |-> i, size |-> Len(ChunkSlice(s.data, i)),
     checksum |-> calculate_checksum(ChunkSlice(s.data, i)),
     status |-> s.chs[i]]

\* db.commit() of upload_file and the response.  All rows of the session
\* are written in one transaction; a ChunkReplica whose id is already
\* taken fails the commit, the handler rolls back and answers 500.  After
\* a commit that succeeded the handler deletes the user_files entry of the
\* uploader.
UploadCommit(u) ==
    /\ up[u].pc = "commit"
    /\ LET s == up[u]
       IN  IF s.reps \cap replicas # {}
           THEN /\ UNCHANGED <<files, chunks, replicas, userFiles>>
                /\ up' = [up EXCEPT ![u].pc = "done", ![u].fstatus = "-",
                                    ![u].chs = Empty, ![u].reps = {},
                                    ![u].code = 500]
           ELSE /\ files' = Put(files, u, FileRow(u, s))
                /\ chunks' = [c \in {<<u, i>> : i \in DOMAIN s.chs} |->
                                 ChunkRow(u, s, c[2])] @@ chunks
                /\ replicas' = replicas \cup s.reps
                /\ userFiles' = CacheDelete(userFiles, s.owner)
                /\ up' = [up EXCEPT ![u].pc = "done", ![u].code = 200,
                                    ![u].status = s.fstatus]
    /\ UNCHANGED <<rtask, vtask, blobs, fileMeta, chunkCache, dl, redelivered,
                   lst>>
    /\ UNCHANGED <<shareVars, auxVars>>

\* ------------------------------------------------------ task runner

\* The broker delivers a message at least once: a first delivery, or one
\* more execution of a task that ran before (a re-delivery or a retry).
Deliver(runs) ==
    IF runs = 0
    THEN redelivered' = redelivered
    ELSE /\ redelivered < MaxRedeliveries
         /\ redelivered' = redelivered + 1

\* The fan-out loop of replicate_chunk visits every node of storage_nodes:
\* each POST is inside its own try/except.  `answering` are the nodes that
\* are reachable and answer 200 while the loop runs.
Posted(nodes, answering) == nodes

\* The nodes that stored the payload and answered 200.
Fanout(nodes, answering) == Posted(nodes, answering) \cap answering

\* Variants of the quorum test, against which the quorum properties are
\* tried: one acknowledgement is enough; exactly the quorum is not enough.
QuorumReached_Any(success_count, rf) == success_count >= 1

QuorumReached_Strict(success_count, rf) == success_count > Quorum(rf)

QuorumReached(success_count, rf) == success_count >= Quorum(rf)

\* One execution of replicate_chunk (a first delivery, a re-delivery or a
\* retry).  The Chunk row is looked up in the committed store; when the
\* commit of the Replica rows hits an id that exists, the transaction is
\* rolled back and the task raises (self.retry) without a result.
ReplicateExec(c) ==
    \E answering \in SUBSET STORAGE_NODES :
       LET t == rtask[c]
           acked == Fanout(t.nodes, answering)
           success_count == Cardinality(acked)
           failed_nodes == t.nodes \ acked
           stored == QuorumReached(success_count, t.rf)
           rows == {<<c, n>> : n \in t.nodes \ failed_nodes}
           raises == c \in DOMAIN chunks /\ stored /\ rows \cap replicas # {}
       IN  /\ blobs' = [n \in STORAGE_NODES |->
                          IF n \in acked THEN Put(blobs[n], c, t.data)
                                         ELSE blobs[n]]
           /\ IF c \in DOMAIN chunks /\ ~raises
              THEN IF stored
                   THEN /\ chunks' = [chunks EXCEPT ![c].status = "stored"]
                        /\ replicas' = replicas \cup rows
                   ELSE /\ chunks' = [chunks EXCEPT ![c].status = "failed"]
                        /\ replicas' = replicas
              ELSE UNCHANGED <<chunks, replicas>>
           /\ rtask' = [rtask EXCEPT ![c] =
                 IF raises
                 THEN [t EXCEPT !.runs = t.runs + 1,
                                !.posted = Posted(t.nodes, answering),
                                !.raised = TRUE]
                 ELSE [t EXCEPT !.runs = t.runs + 1,
                                !.posted = Posted(t.nodes, answering),
                                !.raised = FALSE,
                                !.status = IF stored THEN "stored" ELSE "failed",
                                !.success_count = success_count,
                                !.failed_nodes = failed_nodes]]

ReplicateRun(c) ==
    /\ c \in DOMAIN rtask
    /\ Deliver(rtask[c].runs)
    /\ ReplicateExec(c)
    /\ UNCHANGED <<files, up, vtask, fileMeta, chunkCache, dl>>
    /\ UNCHANGED <<shareVars, listVars, auxVars>>

\* self.retry(countdown=60, max_retries=3) of replicate_chunk.
MAX_RETRIES == 3

RETRY_COUNTDOWN == 60

\* Task.retry gives up, and the exception ends the task, when
\* request.retries + 1 exceeds max_retries.
Exhausted(retries) == retries + 1 > MAX_RETRIES

\* What the worker records after one execution of the message of chunk c
\* that ran with request.retries = retries: the result when the function
\* returned; when it raised and called self.retry, either a retry in 60 s
\* with one more in request.retries, or the failure.  transient tells
\* whether the exception came from the database being unavailable.
AfterExecution(c, retries, raised, transient) ==
    retry' = Put(retry, c,
        IF ~raised
        THEN [state |-> "SUCCESS", retries |-> retries, countdown |-> 0,
              transient |-> FALSE]
        ELSE IF Exhausted(retries)
        THEN [state |-> "FAILURE", retries |-> retries, countdown |-> 0,
              transient |-> transient]
        ELSE [state |-> "RETRY", retries |-> retries + 1,
              countdown |-> RETRY_COUNTDOWN, transient |-> transient])

\* An execution of replicate_chunk in which the database cannot be
\* reached (SessionLocal(), the query or the commit raises): the chunk was
\* posted to the nodes before, nothing is written to the store, the outer
\* handler calls self.retry.
ReplicateDbError(c) ==
    \E answering \in SUBSET STORAGE_NODES :
       LET t == rtask[c]
           acked == Fanout(t.nodes, answering)
       IN  /\ blobs' = [n \in STORAGE_NODES |->
                          IF n \in acked THEN Put(blobs[n], c, t.data)
                                         ELSE blobs[n]]
           /\ UNCHANGED <<chunks, replicas>>
           /\ rtask' = [rtask EXCEPT ![c] =
                 [t EXCEPT !.runs = t.runs + 1,
                           !.posted = Posted(t.nodes, answering),
                           !.raised = TRUE]]

\* The worker executes a message the broker delivers (a first delivery or
\* a re-delivery): request.retries is 0.
TaskDelivered(c) ==
    /\ c \in DOMAIN rtask
    /\ c \in DOMAIN retry => retry[c].state # "RETRY"
    /\ Deliver(rtask[c].runs)
    /\ \/ /\ ReplicateExec(c)
          /\ AfterExecution(c, 0, rtask'[c].raised, FALSE)
       \/ /\ ReplicateDbError(c)
          /\ AfterExecution(c, 0, TRUE, TRUE)
    /\ UNCHANGED <<files, up, vtask, fileMeta, chunkCache, dl>>
    /\ UNCHANGED <<shareVars, listVars, cacheDown, kv, kvClock, kvSet, cmRes,
                   sweep, nodeVars, authVars, healthy, vfetched, probeVars,
                   raceVars>>

\* The worker executes the retry that self.retry scheduled.
TaskRetried(c) ==
    /\ c \in DOMAIN retry
    /\ retry[c].state = "RETRY"
    /\ \/ /\ ReplicateExec(c)
          /\ AfterExecution(c, retry[c].retries, rtask'[c].raised, FALSE)
       \/ /\ ReplicateDbError(c)
          /\ AfterExecution(c, retry[c].retries, TRUE, TRUE)
    /\ UNCHANGED <<files, up, vtask, fileMeta, chunkCache, dl, redelivered>>
    /\ UNCHANGED <<shareVars, listVars, cacheDown, kv, kvClock, kvSet, cmRes,
                   sweep, nodeVars, authVars, healthy, vfetched, probeVars,
                   raceVars>>

ReplicaNodes(c) == {n \in STORAGE_NODES : <<c, n>> \in replicas}

\* The replica nodes that hold a file for chunk c: those whose
\* GET /chunk/{id} answers 200 when they are reachable.
Holders(c) == {n \in ReplicaNodes(c) : c \in DOMAIN blobs[n]}

ChunksOf(f) == {c \in DOMAIN chunks : chunks[c].file_id = f}

\* What the loop over the replica nodes of chunk c can end with: the content
\* of the first node that answers 200, or None when every replica node
\* fails.  Which nodes are reachable, and the order in which a query
\* without ORDER BY returns the Replica rows, are the environment's choice.
Fetched(c) ==
    {NoneVal} \cup {[kind |-> "bytes", val |-> blobs[n][c]] : n \in Holders(c)}

\* One outcome of that loop for each chunk of file f.
Picks(f) ==
    {p \in [ChunksOf(f) -> UNION {Fetched(c) : c \in ChunksOf(f)}] :
        \A c \in ChunksOf(f) : p[c] \in Fetched(c)}

\* Python truth of a str, bytes or None.
Truthy(v) == v.kind # "none" /\ Len(v.val) > 0

\* A variant of VerifyChunkBad that passes a chunk for which nothing was
\* fetched, against which the verified status is tried.
VerifyChunkBad_Lenient(c, chunk_data) ==
    /\ Truthy(chunk_data)
    /\ calculate_checksum(chunk_data.val) # chunks[c].checksum

\* The test verify_file_integrity makes on what the loop fetched for chunk
\* c: TRUE when the chunk goes on the corrupted list.
VerifyChunkBad(c, chunk_data) ==
    IF Truthy(chunk_data)
    THEN calculate_checksum(chunk_data.val) # chunks[c].checksum
    ELSE TRUE

\* The body of verify_file_integrity for a File row that exists, p[c]
\* being what the loop over the replica nodes of chunk c ended with.
VerifyExec(f, p) ==
    LET corrupted_chunks == {c \in ChunksOf(f) : VerifyChunkBad(c, p[c])}
        status == IF corrupted_chunks # {} THEN "corrupted" ELSE "verified"
    IN  /\ files' = [files EXCEPT ![f].status = status]
        /\ vtask' = [vtask EXCEPT ![f] =
              [runs |-> vtask[f].runs + 1, status |-> status,
               mismatch |-> {c \in corrupted_chunks : Truthy(p[c])},
               not_found |-> {c \in corrupted_chunks : ~Truthy(p[c])}]]

\* One execution of verify_file_integrity(file_id).
VerifyRun(f) ==
    /\ f \in DOMAIN vtask
    /\ Deliver(vtask[f].runs)
    /\ IF f \notin DOMAIN files
       THEN /\ files' = files
            /\ vtask' = [vtask EXCEPT ![f] =
                  [runs |-> vtask[f].runs + 1, status |-> "not_found",
                   mismatch |-> {}, not_found |-> {}]]
       ELSE \E p \in Picks(f) : VerifyExec(f, p)
    /\ UNCHANGED <<chunks, replicas, up, rtask, blobs, fileMeta, chunkCache,
                   dl>>
    /\ UNCHANGED <<shareVars, listVars, auxVars>>

\* The first execution of verify_file_integrity for a committed file, with
\* what it fetched for each chunk kept.
VerifyObserved(f) ==
    /\ f \in DOMAIN vtask
    /\ f \in DOMAIN files
    /\ vtask[f].runs = 0
    /\ \E p \in Picks(f) :
          /\ VerifyExec(f, p)
          /\ vfetched' = Put(vfetched, f, p)
    /\ UNCHANGED <<chunks, replicas, up, rtask, blobs, fileMeta, chunkCache,
                   dl, redelivered>>
    /\ UNCHANGED <<shareVars, listVars, cacheDown, kv, kvClock, kvSet, cmRes,
                   sweep, nodeVars, authVars, healthy, retry, probeVars,
                   raceVars>>

\* The key of vtask under which the message of the beat schedule is kept.
SweepId == 0

\* The beat entry "verify-file-integrity" sends
\* chunkvault.verify_file_integrity without arguments: the call raises
\* TypeError (file_id is missing) before the body of the task is entered.
VerifySweep ==
    /\ vtask' = Put(vtask, SweepId,
                    [runs |-> 1, status |-> "type_error", mismatch |-> {},
                     not_found |-> {}])
    /\ UNCHANGED <<files, chunks, replicas, up, rtask, blobs, fileMeta,
                   chunkCache, dl, redelivered>>
    /\ UNCHANGED <<shareVars, listVars, auxVars>>

\* ------------------------------------------------------------- cache

\* redis_client is created with decode_responses=True: a GET decodes the
\* stored bytes as UTF-8.
Utf8Valid(b) == \A k \in DOMAIN b : b[k] = "a"

\* CacheManager.get_chunk_data: the decoded value is a str; a value that
\* does not decode raises inside the try and None is returned, and so
\* does a command that the store fails.
get_chunk_data(c) ==
    IF Hit(chunkCache, c) /\ Utf8Valid(chunkCache[c])
    THEN [kind |-> "str", val |-> chunkCache[c]]
    ELSE NoneVal

\* ---------------------------------------------------------- download

\* retrieve_chunk_from_nodes: the cached value when it is truthy, else
\* what the loop over the replica nodes fetched (which is cached when it is
\* not None).
retrieve_chunk_from_nodes(c, fetched) ==
    IF Truthy(get_chunk_data(c)) THEN get_chunk_data(c) ELSE fetched

\* The indices of a set of Chunk rows in ascending order:
\* order_by(Chunk.chunk_index).
RECURSIVE Ascending(_)
Ascending(idx) ==
    IF idx = {}
    THEN <<>>
    ELSE LET m == CHOOSE x \in idx : \A y \in idx : x <= y
         IN  <<m>> \o Ascending(idx \ {m})

ChunkAt(f, i) == CHOOSE c \in ChunksOf(f) : chunks[c].chunk_index = i

\* b''.join(chunk_data_list)
RECURSIVE Join(_)
Join(parts) ==
    IF Len(parts) = 0 THEN <<>> ELSE Head(parts) \o Join(Tail(parts))

\* The authorization step of download_file: a cached file_metadata entry is
\* used as it is; otherwise the File row is looked up by id and owner.
FileVisible(req, f) ==
    \/ Hit(fileMeta, f)
    \/ f \in DOMAIN files /\ files[f].owner = req

\* download_file(file_id) called by user req.
DownloadFile(req, f) ==
    /\ IF ~FileVisible(req, f)
       THEN /\ dl' = [NoDownload EXCEPT !.req = req, !.code = 404,
                                        !.err = "not_found"]
            /\ UNCHANGED <<fileMeta, chunkCache>>
       ELSE \E p \in Picks(f) :
            LET got == [c \in ChunksOf(f) |->
                           retrieve_chunk_from_nodes(c, p[c])]
                missing == {chunks[c].chunk_index :
                               c \in {d \in ChunksOf(f) : got[d].kind = "none"}}
                \* the chunks the loop reaches: up to the first None
                reached == {c \in ChunksOf(f) :
                               \A j \in missing : chunks[c].chunk_index <= j}
                order == Ascending({chunks[c].chunk_index : c \in ChunksOf(f)})
                r == [NoDownload EXCEPT !.req = req,
                         !.avail = \A c \in ChunksOf(f) : p[c].kind # "none"]
            IN  /\ fileMeta' = IF Hit(fileMeta, f)
                               THEN fileMeta
                               ELSE CacheSet(fileMeta, f, files[f])
                /\ chunkCache' =
                     IF cacheDown THEN chunkCache
                     ELSE [c \in {d \in reached : got[d].kind = "bytes"} |->
                             got[c].val] @@ chunkCache
                /\ dl' =
                     IF missing # {}
                     THEN [r EXCEPT !.code = 500, !.err = "chunk_unavailable"]
                     ELSE IF \E c \in ChunksOf(f) : got[c].kind = "str"
                     THEN [r EXCEPT !.code = 500, !.err = "type_error"]
                     ELSE [r EXCEPT !.code = 200,
                              !.parts = [k \in DOMAIN order |->
                                            got[ChunkAt(f, order[k])].val]]
    /\ UNCHANGED <<files, chunks, replicas, up, rtask, vtask, blobs,
                   redelivered>>
    /\ UNCHANGED <<shareVars, listVars, auxVars>>

\* A TTL of the cache store runs out (file_metadata 600 s, chunk_data 3600 s).
ExpireFileMetadata(f) ==
    /\ f \in DOMAIN fileMeta
    /\ fileMeta' = Drop(fileMeta, f)
    /\ UNCHANGED <<files, chunks, replicas, up, rtask, vtask, blobs,
                   chunkCache, dl, redelivered>>
    /\ UNCHANGED <<shareVars, listVars, auxVars>>

ExpireChunkData(c) ==
    /\ c \in DOMAIN chunkCache
    /\ chunkCache' = Drop(chunkCache, c)
    /\ UNCHANGED <<files, chunks, replicas, up, rtask, vtask, blobs,
                   fileMeta, dl, redelivered>>
    /\ UNCHANGED <<shareVars, listVars, auxVars>>

\* ------------------------------------------------------ registration

Usernames == {"ann", "ben", "cy"}
Emails == {"a@x", "b@x", "c@x"}

\* The query of register: a User row with this username or this email.
Taken_Both(username, email) ==
    \E u \in DOMAIN users :
        users[u].username = username /\ users[u].email = email

Taken(username, email) ==
    \E u \in DOMAIN users :
        users[u].username = username \/ users[u].email = email

\* register(user_data): 400 when the query finds a row; otherwise a row
\* with a new id is committed.  The handler has no await: one call runs
\* from its query to its commit without another call in between.
Register(username, email) ==
    /\ IF Taken(username, email)
       THEN /\ reg' = [username |-> username, email |-> email, code |-> 400,
                       user_id |-> 0]
            /\ users' = users
       ELSE LET id == Cardinality(DOMAIN users) + 1
            IN  /\ users' = Put(users, id,
                                [username |-> username, email |-> email])
                /\ reg' = [username |-> username, email |-> email,
                           code |-> 200, user_id |-> id]
    /\ UNCHANGED <<files, chunks, replicas, up, rtask, vtask, blobs, fileMeta,
                   chunkCache, dl, redelivered>>
    /\ UNCHANGED <<shareVars, listVars, cacheDown, kv, kvClock, kvSet, cmRes,
                   sweep, nodeVars, healthy, extVars>>

\* ---------------------------------------------------------- listings

\* FileInfo.model_validate(file): the fields of the row that the listing
\* shows.
FileInfo(row) == [size |-> row.size, status |-> row.status]

\* The query of list_files: the File rows of the owner, as FileInfo models.
QueryFiles(req) ==
    [kind |-> "FileInfo",
     items |-> [f \in {x \in DOMAIN files : files[x].owner = req} |->
                   FileInfo(files[f])]]

\* What CacheManager.set followed by CacheManager.get makes of a list of
\* FileInfo models: json.dumps(value, default=str) writes each model as
\* the string str(model), and json.loads returns the list of strings.
JsonListing(file_list) == [file_list EXCEPT !.kind = "str"]

\* list_files called by user req.  A cached listing that is not empty is
\* returned as it is; otherwise the rows are read, cached and returned.
ListFiles(req) ==
    /\ LET cached_files == IF Hit(userFiles, req)
                           THEN userFiles[req]
                           ELSE [kind |-> "none", items |-> Empty]
       IN  IF DOMAIN cached_files.items # {}
           THEN /\ lst' = [req |-> req, body |-> cached_files]
                /\ userFiles' = userFiles
           ELSE /\ lst' = [req |-> req, body |-> QueryFiles(req)]
                /\ userFiles' = CacheSet(userFiles, req,
                                         JsonListing(QueryFiles(req)))
    /\ UNCHANGED <<files, chunks, replicas, up, rtask, vtask, blobs, fileMeta,
                   chunkCache, dl, redelivered>>
    /\ UNCHANGED <<shareVars, auxVars>>

\* The list_files requests that overlap other requests.
Overlapping == {"r1"}

\* list_files called by user req in one of several worker processes that
\* serve requests at the same time, up to the query: the cached listing is
\* returned when there is one, otherwise the rows are read.
ListRead(r, req) ==
    /\ lreq[r].pc = "idle"
    /\ LET cached_files == IF Hit(userFiles, req)
                           THEN userFiles[req]
                           ELSE [kind |-> "none", items |-> Empty]
       IN  lreq' = [lreq EXCEPT ![r] =
              IF DOMAIN cached_files.items # {}
              THEN [NoListRequest EXCEPT !.pc = "done", !.req = req,
                                         !.body = cached_files]
              ELSE [NoListRequest EXCEPT !.pc = "write", !.req = req,
                                         !.file_list = QueryFiles(req)]]
    /\ UNCHANGED <<files, chunks, replicas, up, rtask, vtask, blobs, fileMeta,
                   chunkCache, dl, redelivered>>
    /\ UNCHANGED <<shareVars, listVars, cacheDown, kv, kvClock, kvSet, cmRes,
                   sweep, nodeVars, authVars, healthy, retry, vfetched,
                   probeVars, sreq>>

\* cache_manager.set_user_files(current_user.id, file_list) and the
\* response of that request.
ListWrite(r) ==
    /\ lreq[r].pc = "write"
    /\ userFiles' = CacheSet(userFiles, lreq[r].req,
                             JsonListing(lreq[r].file_list))
    /\ lreq' = [lreq EXCEPT ![r].pc = "done", ![r].body = lreq[r].file_list]
    /\ UNCHANGED <<files, chunks, replicas, up, rtask, vtask, blobs, fileMeta,
                   chunkCache, dl, redelivered, lst>>
    /\ UNCHANGED <<shareVars, cacheDown, kv, kvClock, kvSet, cmRes,
                   sweep, nodeVars, authVars, healthy, retry, vfetched,
                   probeVars, sreq>>

\* The TTL of a user_files entry (300 s) runs out.
ExpireUserFiles(req) ==
    /\ req \in DOMAIN userFiles
    /\ userFiles' = Drop(userFiles, req)
    /\ UNCHANGED <<files, chunks, replicas, up, rtask, vtask, blobs, fileMeta,
                   chunkCache, dl, redelivered, lst>>
    /\ UNCHANGED <<shareVars, auxVars>>

\* ------------------------------------------------------- cache faults

\* The cache store stops answering: every command raises.
CacheFail ==
    /\ ~cacheDown
    /\ cacheDown' = TRUE
    /\ UNCHANGED <<files, chunks, replicas, up, rtask, vtask, blobs, fileMeta,
                   chunkCache, dl, redelivered, kv, kvClock, kvSet, cmRes,
                   sweep>>
    /\ UNCHANGED <<shareVars, listVars, nodeVars, authVars, healthy, extVars>>

\* The cache store answers again, with the entries it had.
CacheRecover ==
    /\ cacheDown
    /\ cacheDown' = FALSE
    /\ UNCHANGED <<files, chunks, replicas, up, rtask, vtask, blobs, fileMeta,
                   chunkCache, dl, redelivered, kv, kvClock, kvSet, cmRes,
                   sweep>>
    /\ UNCHANGED <<shareVars, listVars, nodeVars, authVars, healthy, extVars>>

\* ------------------------------------------------------------ shares

\* uuid4 share tokens are unique; one share is followed.
ShareTokens == {"t1"}

\* expires_in_hours: 0 stands for None (both are falsy in create_share).
ShareHours == {0, 1}

NoExpiry == [kind |-> "none", t |-> 0]

\* create_share(file_id, expires_in_hours) called by user req; the answer
\* to a user who does not own the file is 404 and nothing is written.
CreateShare(req, f, hours, token) ==
    /\ f \in DOMAIN files
    /\ files[f].owner = req
    /\ token \notin DOMAIN shares
    /\ shares' = Put(shares, token,
                     [file_id |-> f, owner |-> req,
                      expires_at |-> IF hours # 0
                                     THEN [kind |-> "datetime", t |-> now + hours]
                                     ELSE NoExpiry,
                      access_count |-> 0])
    /\ shareLog' = Put(shareLog, token, [gets |-> 0, accepted |-> 0])
    /\ UNCHANGED <<files, chunks, replicas, up, rtask, vtask, blobs, fileMeta,
                   chunkCache, dl, redelivered, shareInfo, now, sdl>>
    /\ UNCHANGED <<listVars, auxVars>>

\* What CacheManager.set followed by CacheManager.get makes of a FileShare
\* dict: json.dumps(value, default=str) writes a datetime as a string and
\* json.loads returns that string.
JsonShare(row) ==
    [row EXCEPT !.expires_at =
        IF @.kind = "datetime" THEN [kind |-> "str", t |-> @.t] ELSE @]

\* The chunk loop of download_shared_file for file f, "same logic as regular
\* download": what each chunk's retrieve_chunk_from_nodes returned, the
\* chunks the loop reached, and what it cached.
SharedRead(f, p) ==
    LET got == [c \in ChunksOf(f) |-> retrieve_chunk_from_nodes(c, p[c])]
        missing == {chunks[c].chunk_index :
                       c \in {d \in ChunksOf(f) : got[d].kind = "none"}}
        reached == {c \in ChunksOf(f) :
                       \A j \in missing : chunks[c].chunk_index <= j}
        order == Ascending({chunks[c].chunk_index : c \in ChunksOf(f)})
    IN  [missing |-> missing # {},
         str |-> \E c \in ChunksOf(f) : got[c].kind = "str",
         parts |-> [k \in DOMAIN order |-> got[ChunkAt(f, order[k])].val],
         cached |-> [c \in {d \in reached : got[d].kind = "bytes"} |->
                        got[c].val]]

\* download_shared_file(share_token).
DownloadShared(token) ==
    /\ token \in DOMAIN shareLog
    /\ shareLog[token].gets < MaxGets
    /\ LET hit == Hit(shareInfo, token)
           r == [NoSharedDownload EXCEPT !.token = token]
           log == [shareLog[token] EXCEPT !.gets = @ + 1]
       IN  IF ~hit /\ token \notin DOMAIN shares
           THEN /\ sdl' = [r EXCEPT !.code = 404, !.err = "share_not_found"]
                /\ shareLog' = [shareLog EXCEPT ![token] = log]
                /\ UNCHANGED <<shares, shareInfo, chunkCache>>
           ELSE LET share_record == IF hit THEN shareInfo[token]
                                           ELSE shares[token]
                    f == share_record.file_id
                IN  /\ shareInfo' = IF hit THEN shareInfo
                                    ELSE CacheSet(shareInfo, token,
                                                  JsonShare(shares[token]))
                    /\ IF share_record.expires_at.kind = "str"
                       THEN \* str < datetime raises TypeError
                            /\ sdl' = [r EXCEPT !.code = 500,
                                                !.err = "type_error"]
                            /\ shareLog' = [shareLog EXCEPT ![token] = log]
                            /\ UNCHANGED <<shares, chunkCache>>
                       ELSE IF /\ share_record.expires_at.kind = "datetime"
                               /\ share_record.expires_at.t < now
                       THEN /\ sdl' = [r EXCEPT !.code = 410,
                                                !.err = "expired"]
                            /\ shareLog' = [shareLog EXCEPT ![token] = log]
                            /\ UNCHANGED <<shares, chunkCache>>
                       ELSE \* access_count += 1; db.commit(): the object
                            \* built from the cache is not in the session
                            /\ shares' = IF hit THEN shares
                                         ELSE [shares EXCEPT
                                                 ![token].access_count = @ + 1]
                            /\ shareLog' = [shareLog EXCEPT ![token] =
                                              [log EXCEPT !.accepted = @ + 1]]
                            /\ IF f \notin DOMAIN files
                               THEN /\ sdl' = [r EXCEPT !.code = 404,
                                                        !.err = "file_not_found"]
                                    /\ chunkCache' = chunkCache
                               ELSE \E p \in Picks(f) :
                                    LET rd == SharedRead(f, p)
                                    IN  /\ chunkCache' =
                                             IF cacheDown THEN chunkCache
                                             ELSE rd.cached @@ chunkCache
                                        /\ sdl' =
                                             IF rd.missing
                                             THEN [r EXCEPT !.code = 500,
                                                     !.err = "chunk_unavailable"]
                                             ELSE IF rd.str
                                             THEN [r EXCEPT !.code = 500,
                                                     !.err = "type_error"]
                                             ELSE [r EXCEPT !.code = 200,
                                                     !.parts = rd.parts]
    /\ UNCHANGED <<files, chunks, replicas, up, rtask, vtask, blobs, fileMeta,
                   dl, redelivered, now>>
    /\ UNCHANGED <<listVars, auxVars>>

\* download_shared_file(share_token) in one of several worker processes
\* that serve requests at the same time, up to the query: the cached
\* share, or the FileShare row loaded into the session.
ShareLookup(r, token) ==
    /\ sreq[r].pc = "idle"
    /\ token \in DOMAIN shareLog
    /\ shareLog[token].gets < MaxGets
    /\ shareLog' = [shareLog EXCEPT ![token].gets = @ + 1]
    /\ sreq' = [sreq EXCEPT ![r] =
          IF Hit(shareInfo, token)
          THEN [NoSharedRequest EXCEPT !.pc = "check", !.token = token,
                                       !.share_record = shareInfo[token]]
          ELSE IF token \notin DOMAIN shares
          THEN [NoSharedRequest EXCEPT !.pc = "done", !.token = token,
                                       !.code = 404]
          ELSE [NoSharedRequest EXCEPT !.pc = "cache", !.token = token,
                                       !.attached = TRUE,
                                       !.share_record = shares[token]]]
    /\ UNCHANGED <<files, chunks, replicas, up, rtask, vtask, blobs, fileMeta,
                   chunkCache, dl, redelivered, shares, shareInfo, now, sdl>>
    /\ UNCHANGED <<listVars, cacheDown, kv, kvClock, kvSet, cmRes, sweep,
                   nodeVars, authVars, healthy, retry, vfetched, probeVars,
                   lreq>>

\* cache_manager.set_share_info after a miss.
ShareCache(r) ==
    /\ sreq[r].pc = "cache"
    /\ shareInfo' = CacheSet(shareInfo, sreq[r].token,
                             JsonShare(sreq[r].share_record))
    /\ sreq' = [sreq EXCEPT ![r].pc = "check"]
    /\ UNCHANGED <<files, chunks, replicas, up, rtask, vtask, blobs, fileMeta,
                   chunkCache, dl, redelivered, shares, now, sdl, shareLog>>
    /\ UNCHANGED <<listVars, cacheDown, kv, kvClock, kvSet, cmRes, sweep,
                   nodeVars, authVars, healthy, retry, vfetched, probeVars,
                   lreq>>

\* The rest of the handler: the expiry test, access_count += 1 on the
\* object the request holds, db.commit(), which writes the new value of
\* the attribute when the object is the row of the session, and the
\* download.
ShareCommit(r) ==
    /\ sreq[r].pc = "check"
    /\ LET q == sreq[r]
           token == q.token
           f == q.share_record.file_id
       IN  IF q.share_record.expires_at.kind = "str"
           THEN /\ sreq' = [sreq EXCEPT ![r].pc = "done", ![r].code = 500]
                /\ UNCHANGED <<shares, shareLog, chunkCache>>
           ELSE IF /\ q.share_record.expires_at.kind = "datetime"
                   /\ q.share_record.expires_at.t < now
           THEN /\ sreq' = [sreq EXCEPT ![r].pc = "done", ![r].code = 410]
                /\ UNCHANGED <<shares, shareLog, chunkCache>>
           ELSE /\ shares' = IF q.attached /\ token \in DOMAIN shares
                             THEN [shares EXCEPT ![token].access_count =
                                     q.share_record.access_count + 1]
                             ELSE shares
                /\ shareLog' = [shareLog EXCEPT ![token].accepted = @ + 1]
                /\ IF f \notin DOMAIN files
                   THEN /\ sreq' = [sreq EXCEPT ![r].pc = "done",
                                                ![r].accepted = TRUE,
                                                ![r].code = 404]
                        /\ chunkCache' = chunkCache
                   ELSE \E p \in Picks(f) :
                        LET rd == SharedRead(f, p)
                        IN  /\ chunkCache' = IF cacheDown THEN chunkCache
                                             ELSE rd.cached @@ chunkCache
                            /\ sreq' = [sreq EXCEPT
                                  ![r].pc = "done", ![r].accepted = TRUE,
                                  ![r].code = IF rd.missing \/ rd.str
                                              THEN 500 ELSE 200]
    /\ UNCHANGED <<files, chunks, replicas, up, rtask, vtask, blobs, fileMeta,
                   dl, redelivered, shareInfo, now, sdl>>
    /\ UNCHANGED <<listVars, cacheDown, kv, kvClock, kvSet, cmRes, sweep,
                   nodeVars, authVars, healthy, retry, vfetched, probeVars,
                   lreq>>

\* An hour passes.  Every cache entry is older than its TTL by then
\* (share_info 1800 s, file_metadata 600 s, chunk_data 3600 s, user_files
\* 300 s).
Tick ==
    /\ now < MaxTime
    /\ now' = now + 1
    /\ shareInfo' = Empty
    /\ fileMeta' = Empty
    /\ chunkCache' = Empty
    /\ userFiles' = Empty
    /\ UNCHANGED <<files, chunks, replicas, up, rtask, vtask, blobs, dl,
                   redelivered, shares, sdl, shareLog, lst>>
    /\ UNCHANGED auxVars

\* The TTL of a share_info entry runs out within the hour.
ExpireShareInfo(token) ==
    /\ token \in DOMAIN shareInfo
    /\ shareInfo' = Drop(shareInfo, token)
    /\ UNCHANGED <<files, chunks, replicas, up, rtask, vtask, blobs, fileMeta,
                   chunkCache, dl, redelivered, shares, now, sdl, shareLog>>
    /\ UNCHANGED <<listVars, auxVars>>

\* The filter of cleanup_expired_shares, FileShare.expires_at < utcnow():
\* a row without expires_at is not selected.
ExpiredAt_Inclusive(row, t) ==
    row.expires_at.kind = "datetime" /\ row.expires_at.t <= t

ExpiredAt(row, t) ==
    row.expires_at.kind = "datetime" /\ row.expires_at.t < t

\* One run of the task cleanup_expired_shares: the selected rows are
\* deleted in one transaction and their number is returned.
CleanupExpiredShares ==
    /\ sweep.runs < MaxSweeps
    /\ LET expired_shares == {t \in DOMAIN shares : ExpiredAt(shares[t], now)}
       IN  /\ shares' = [t \in DOMAIN shares \ expired_shares |-> shares[t]]
           /\ sweep' = [runs |-> sweep.runs + 1,
                        expired_shares_removed |-> Cardinality(expired_shares)]
    /\ UNCHANGED <<files, chunks, replicas, up, rtask, vtask, blobs, fileMeta,
                   chunkCache, dl, redelivered, shareInfo, now, sdl, shareLog>>
    /\ UNCHANGED <<listVars, cacheDown, kv, kvClock, kvSet, cmRes, nodeVars,
                   authVars, healthy, extVars>>

\* ------------------------------------------------------- node health

\* What a node does with GET /health: it answers with a status code, or
\* the request times out or the connection fails.
HealthAnswers == {"200", "503", "timeout"}

\* A variant of ProbeStatus that does not tell a node that answers with an
\* error from a node that does not answer.
ProbeStatus_Binary(answer) ==
    IF answer = "200" THEN "healthy" ELSE "offline"

\* The status health_check_storage_nodes records for one node.
ProbeStatus(answer) ==
    IF answer = "timeout" THEN "offline"
    ELSE IF answer = "200" THEN "healthy"
    ELSE "unhealthy"

\* The key and the TTL of the SETEX of health_check_storage_nodes, and the
\* key that CacheManager.get_storage_node_health reads.
PROBE_KEY == "storage_nodes_health"

PROBE_TTL == 300

HEALTH_KEY == "storage_nodes_health"

\* health_check_storage_nodes: one GET per configured node, each inside
\* its own try/except, then SETEX of str(node_status).  When the SETEX
\* raises, the outer handler returns the status error.
ProbeNodes ==
    /\ probe.runs < MaxProbes
    /\ \E answers \in [STORAGE_NODES -> HealthAnswers] :
          LET node_status == [n \in STORAGE_NODES |-> ProbeStatus(answers[n])]
          IN  /\ nodesHealth' =
                    IF cacheDown THEN nodesHealth
                    ELSE Put(nodesHealth, PROBE_KEY,
                             [format |-> "repr", val |-> node_status,
                              ttl |-> PROBE_TTL])
              /\ probe' = [runs |-> probe.runs + 1, answers |-> answers,
                           status |-> IF cacheDown THEN "error" ELSE "success",
                           node_status |-> node_status]
    /\ UNCHANGED <<files, chunks, replicas, up, rtask, vtask, blobs, fileMeta,
                   chunkCache, dl, redelivered>>
    /\ UNCHANGED <<shareVars, listVars, cacheDown, kv, kvClock, kvSet, cmRes,
                   sweep, nodeVars, authVars, healthy, retry, vfetched, hview,
                   raceVars>>

\* The TTL of the snapshot runs out.
ExpireNodesHealth ==
    /\ nodesHealth # Empty
    /\ nodesHealth' = Empty
    /\ UNCHANGED <<files, chunks, replicas, up, rtask, vtask, blobs, fileMeta,
                   chunkCache, dl, redelivered>>
    /\ UNCHANGED <<shareVars, listVars, cacheDown, kv, kvClock, kvSet, cmRes,
                   sweep, nodeVars, authVars, healthy, retry, vfetched, probe,
                   hview,
                   raceVars>>

\* CacheManager.get_storage_node_health: json.loads of the stored string.
\* str() of a dict is not JSON (its strings are in single quotes):
\* json.loads raises, get catches it and returns None.
get_storage_node_health ==
    IF Hit(nodesHealth, HEALTH_KEY) /\ nodesHealth[HEALTH_KEY].format = "json"
    THEN [kind |-> "dict", val |-> nodesHealth[HEALTH_KEY].val]
    ELSE NoneVal

\* GET /health of the coordinator: the cached snapshot when there is one,
\* else one GET per configured node.
HealthCheck ==
    /\ IF get_storage_node_health.kind # "none"
       THEN hview' = [source |-> "cache", nodes |-> get_storage_node_health.val]
       ELSE \E answers \in [STORAGE_NODES -> HealthAnswers] :
               hview' = [source |-> "direct",
                         nodes |-> [n \in STORAGE_NODES |->
                                      IF answers[n] = "timeout" THEN "offline"
                                      ELSE IF answers[n] = "200" THEN "healthy"
                                      ELSE "unhealthy"]]
    /\ UNCHANGED <<files, chunks, replicas, up, rtask, vtask, blobs, fileMeta,
                   chunkCache, dl, redelivered>>
    /\ UNCHANGED <<shareVars, listVars, cacheDown, kv, kvClock, kvSet, cmRes,
                   sweep, nodeVars, authVars, healthy, retry, vfetched,
                   nodesHealth, probe,
                   raceVars>>

\* ------------------------------------------------------- CacheManager

Keys == {"k1", "k2"}

\* The expire argument of CacheManager.set: None, or a number of seconds.
NoTtl == 0
Ttls == {NoTtl} \cup (1..MaxTtl)

\* The values handed to CacheManager.set: dicts as download_shared_file
\* builds them from a FileShare row, with expires_at a datetime or None.
CacheValues ==
    {[file_id |-> 1, owner |-> "alice", expires_at |-> e, access_count |-> 0] :
        e \in {NoExpiry, [kind |-> "datetime", t |-> 1]}}

\* A key of the store that has not run out of its TTL.
Live(k) ==
    k \in DOMAIN kv /\ (kv[k].exp = NoTtl \/ kvClock < kv[k].exp)

\* CacheManager.set(key, value, expire): json.dumps(value, default=str),
\* then SETEX when expire is truthy and SET otherwise.
CmSet(k, v, expire) ==
    /\ kv' = Put(kv, k, [raw |-> JsonShare(v),
                         exp |-> IF expire # NoTtl THEN kvClock + expire
                                                   ELSE NoTtl])
    /\ kvSet' = Put(kvSet, k, [val |-> v, at |-> kvClock, expire |-> expire])
    /\ cmRes' = [NoCall EXCEPT !.op = "set", !.key = k, !.ok = TRUE]
    /\ UNCHANGED <<files, chunks, replicas, up, rtask, vtask, blobs, fileMeta,
                   chunkCache, dl, redelivered, cacheDown, kvClock, sweep>>
    /\ UNCHANGED <<shareVars, listVars, nodeVars, authVars, healthy, extVars>>

\* What CacheManager.get(key) returns: json.loads of the stored string, or
\* None.
CmGetResult(k) ==
    IF Live(k) THEN [kind |-> "value", v |-> kv[k].raw] ELSE [kind |-> "none"]

CmGet(k) ==
    /\ cmRes' = [op |-> "get", key |-> k, ok |-> Live(k),
                 val |-> CmGetResult(k)]
    /\ UNCHANGED <<files, chunks, replicas, up, rtask, vtask, blobs, fileMeta,
                   chunkCache, dl, redelivered, cacheDown, kv, kvClock, kvSet,
                   sweep>>
    /\ UNCHANGED <<shareVars, listVars, nodeVars, authVars, healthy, extVars>>

\* What CacheManager.delete(key) returns: True when the store removed a
\* key.
CmDeleteResult(k) == Live(k)

\* CacheManager.delete(key), which the invalidate_* methods call.
CmDelete(k) ==
    /\ kv' = Drop(kv, k)
    /\ kvSet' = Drop(kvSet, k)
    /\ cmRes' = [NoCall EXCEPT !.op = "delete", !.key = k,
                                !.ok = CmDeleteResult(k)]
    /\ UNCHANGED <<files, chunks, replicas, up, rtask, vtask, blobs, fileMeta,
                   chunkCache, dl, redelivered, cacheDown, kvClock, sweep>>
    /\ UNCHANGED <<shareVars, listVars, nodeVars, authVars, healthy, extVars>>

\* A second passes on the clock of the store.
CmTick ==
    /\ kvClock < MaxClock
    /\ kvClock' = kvClock + 1
    /\ UNCHANGED <<files, chunks, replicas, up, rtask, vtask, blobs, fileMeta,
                   chunkCache, dl, redelivered, cacheDown, kv, kvSet, cmRes,
                   sweep>>
    /\ UNCHANGED <<shareVars, listVars, nodeVars, authVars, healthy, extVars>>

\* ------------------------------------------------------ storage nodes

\* A payload that differs from b in its first byte.
Damaged(b) ==
    [k \in DOMAIN b |->
        IF k = 1 THEN (IF b[k] = "a" THEN "ff" ELSE "a") ELSE b[k]]

\* The chunk files on the nodes that no longer hold what replicate_chunk
\* posted.
DamagedBlobs ==
    {x \in STORAGE_NODES \X DOMAIN rtask :
        /\ x[2] \in DOMAIN blobs[x[1]]
        /\ blobs[x[1]][x[2]] # rtask[x[2]].data}

\* A chunk file of a committed file is overwritten on a node's disk, out of
\* band.
CorruptBlob(n, c) ==
    /\ c[1] \in DOMAIN files
    /\ c \in DOMAIN blobs[n]
    /\ Cardinality(DamagedBlobs) < MaxCorruptions
    /\ blobs' = [blobs EXCEPT ![n] = Put(blobs[n], c, Damaged(blobs[n][c]))]
    /\ UNCHANGED <<files, chunks, replicas, up, rtask, vtask, fileMeta,
                   chunkCache, dl, redelivered>>
    /\ UNCHANGED <<shareVars, listVars, auxVars>>

\* A chunk file of a committed file is left empty on a node's disk: a
\* store of the chunk has opened the file for writing, which cuts it to
\* length 0, and has not written, or the file was cut out of band.
TruncateBlob(n, c) ==
    /\ c[1] \in DOMAIN files
    /\ c \in DOMAIN blobs[n]
    /\ blobs[n][c] # <<>>
    /\ Cardinality(DamagedBlobs) < MaxCorruptions
    /\ blobs' = [blobs EXCEPT ![n] = Put(blobs[n], c, <<>>)]
    /\ UNCHANGED <<files, chunks, replicas, up, rtask, vtask, fileMeta,
                   chunkCache, dl, redelivered>>
    /\ UNCHANGED <<shareVars, listVars, auxVars>>

\* The first delivery of a replicate_chunk message.
ReplicateFirst(c) ==
    /\ c \in DOMAIN rtask
    /\ rtask[c].runs = 0
    /\ ReplicateRun(c)

\* --------------------------------------------- storage node handlers

\* The bodies that are posted to the node.
NodePayloads == Contents

\* The chunk files of the node.
Disk == blobs[NODE_ID]

\* The file of a chunk id, if there is one.
FileOf(id) ==
    IF id \in DOMAIN Disk THEN [kind |-> "bytes", val |-> Disk[id]]
                          ELSE NoneVal

Overlay_Short(old, data) ==
    SubSeq(data, 1, Len(data) - 1) \o SubSeq(old, Len(data) + 1, Len(old))

\* The content of a file after a writer that opened it with "wb" has
\* written data: the writer's position is 0, bytes beyond the data that
\* another writer has put there stay.
Overlay(old, data) ==
    data \o SubSeq(old, Len(data) + 1, Len(old))

\* store_chunk up to aiofiles.open(chunk_path, "wb"): the body is read and
\* measured, the digest is computed, and opening the file creates it or
\* cuts it to length 0.
StoreChunkOpen(r, id, data) ==
    /\ nreq[r].pc \in {"idle", "done"}
    /\ LET q == [NoRequest EXCEPT !.op = "store", !.id = id, !.data = data,
                                  !.before = FileOf(id)]
       IN  IF Len(data) > MAX_CHUNK_SIZE
           THEN /\ nreq' = [nreq EXCEPT ![r] =
                              [q EXCEPT !.pc = "done", !.code = 413]]
                /\ UNCHANGED <<blobs, lastStored>>
           ELSE /\ nreq' = [nreq EXCEPT ![r] = [q EXCEPT !.pc = "write"]]
                /\ blobs' = [blobs EXCEPT ![NODE_ID] = Put(@, id, <<>>)]
                /\ lastStored' = Drop(lastStored, id)
    /\ UNCHANGED <<files, chunks, replicas, up, rtask, vtask, fileMeta,
                   chunkCache, dl, redelivered>>
    /\ UNCHANGED <<shareVars, listVars, cacheDown, kv, kvClock, kvSet, cmRes,
                   sweep, authVars, healthy, extVars>>

\* await f.write(chunk_data): the bytes are written from position 0 of the
\* writer's file, which is no longer in the directory when a delete_chunk
\* has unlinked it.
StoreChunkWrite(r) ==
    /\ nreq[r].pc = "write"
    /\ nreq' = [nreq EXCEPT ![r].pc = "close"]
    /\ blobs' = IF nreq[r].id \in DOMAIN Disk
                THEN [blobs EXCEPT ![NODE_ID][nreq[r].id] =
                         Overlay(@, nreq[r].data)]
                ELSE blobs
    /\ UNCHANGED <<files, chunks, replicas, up, rtask, vtask, fileMeta,
                   chunkCache, dl, redelivered, lastStored>>
    /\ UNCHANGED <<shareVars, listVars, cacheDown, kv, kvClock, kvSet, cmRes,
                   sweep, authVars, healthy, extVars>>

\* The file is closed and store_chunk answers with the digest and the size
\* of the body.
StoreChunkReturn(r) ==
    /\ nreq[r].pc = "close"
    /\ nreq' = [nreq EXCEPT ![r].pc = "done", ![r].code = 200,
                            ![r].checksum = calculate_checksum(nreq[r].data),
                            ![r].size = Len(nreq[r].data)]
    /\ lastStored' = Put(lastStored, nreq[r].id, nreq[r].data)
    /\ UNCHANGED <<files, chunks, replicas, up, rtask, vtask, blobs, fileMeta,
                   chunkCache, dl, redelivered>>
    /\ UNCHANGED <<shareVars, listVars, cacheDown, kv, kvClock, kvSet, cmRes,
                   sweep, authVars, healthy, extVars>>

\* What retrieve_chunk answers for a chunk id: the bytes of the file, or
\* 404 when there is no file.
RetrieveResult(id) ==
    IF id \in DOMAIN Disk THEN [code |-> 200, body |-> Disk[id]]
                          ELSE [code |-> 404, body |-> <<>>]

RetrieveChunk(r, id) ==
    /\ nreq[r].pc \in {"idle", "done"}
    /\ nreq' = [nreq EXCEPT ![r] =
                  [NoRequest EXCEPT !.op = "retrieve", !.id = id,
                      !.pc = "done", !.before = FileOf(id),
                      !.code = RetrieveResult(id).code,
                      !.body = RetrieveResult(id).body]]
    /\ UNCHANGED <<files, chunks, replicas, up, rtask, vtask, blobs, fileMeta,
                   chunkCache, dl, redelivered, lastStored>>
    /\ UNCHANGED <<shareVars, listVars, cacheDown, kv, kvClock, kvSet, cmRes,
                   sweep, authVars, healthy, extVars>>

\* What get_chunk_info answers: the size of the file, or 404.
InfoResult(id) ==
    IF id \in DOMAIN Disk THEN [code |-> 200, size |-> Len(Disk[id])]
                          ELSE [code |-> 404, size |-> 0]

GetChunkInfo(r, id) ==
    /\ nreq[r].pc \in {"idle", "done"}
    /\ nreq' = [nreq EXCEPT ![r] =
                  [NoRequest EXCEPT !.op = "info", !.id = id, !.pc = "done",
                      !.before = FileOf(id),
                      !.code = InfoResult(id).code,
                      !.size = InfoResult(id).size]]
    /\ UNCHANGED <<files, chunks, replicas, up, rtask, vtask, blobs, fileMeta,
                   chunkCache, dl, redelivered, lastStored>>
    /\ UNCHANGED <<shareVars, listVars, cacheDown, kv, kvClock, kvSet, cmRes,
                   sweep, authVars, healthy, extVars>>

\* delete_chunk: the file is unlinked when it exists; the answer is 200
\* either way.
DeleteChunk(r, id) ==
    /\ nreq[r].pc \in {"idle", "done"}
    /\ nreq' = [nreq EXCEPT ![r] =
                  [NoRequest EXCEPT !.op = "delete", !.id = id, !.pc = "done",
                      !.before = FileOf(id), !.code = 200]]
    /\ blobs' = [blobs EXCEPT ![NODE_ID] = Drop(@, id)]
    /\ lastStored' = Drop(lastStored, id)
    /\ UNCHANGED <<files, chunks, replicas, up, rtask, vtask, fileMeta,
                   chunkCache, dl, redelivered>>
    /\ UNCHANGED <<shareVars, listVars, cacheDown, kv, kvClock, kvSet, cmRes,
                   sweep, authVars, healthy, extVars>>

\* ------------------------------------------------------ write path

\* The committed Chunk rows of file f cover its chunk_count indices and are
\* all stored.
FileChunksStored(f) ==
    \A i \in 0..(files[f].chunk_count - 1) :
        /\ <<f, i>> \in DOMAIN chunks
        /\ chunks[<<f, i>>].status = "stored"

\* C2: every committed Chunk whose status is stored has at least
\* floor(R/2)+1 Replica rows on distinct storage nodes, R being the
\* configured replication factor; this holds whether the status was written
\* by the upload handler or by the replicate_chunk task.
QuorumInvariant ==
    \A c \in DOMAIN chunks :
        chunks[c].status = "stored" =>
            Cardinality(ReplicaNodes(c)) >= Quorum(REPLICATION_FACTOR)

\* A chunk the task stored after its upload gave up: it has exactly the
\* quorum of Replica rows and its file is failed.
QuorumWitness ==
    \E c \in DOMAIN chunks :
        /\ chunks[c].status = "stored"
        /\ files[c[1]].status = "failed"
        /\ Cardinality(ReplicaNodes(c)) = Quorum(REPLICATION_FACTOR)

\* C3: a File whose status is completed or verified has all of its
\* chunk_count chunks in status stored.
CompletedImpliesStored ==
    \A f \in DOMAIN files :
        files[f].status \in {"completed", "verified"} => FileChunksStored(f)

\* C4: the commit of an upload writes the File as completed exactly when
\* every one of its chunks is stored, and as failed otherwise; no committed
\* File is ever in status uploading.
UploadOutcome ==
    [][\A f \in DOMAIN files' :
          /\ files'[f].status # "uploading"
          /\ f \notin DOMAIN files =>
                /\ files'[f].status \in {"completed", "failed"}
                /\ files'[f].status = "completed" <=> FileChunksStored(f)']_vars

\* An upload of two chunks has returned: the first chunk is stored, the
\* second is failed and the file is failed.
UploadOutcomeWitness ==
    /\ up[1].pc = "done"
    /\ 1 \in DOMAIN files
    /\ files[1].status = "failed"
    /\ files[1].chunk_count = 2
    /\ <<1, 1>> \in DOMAIN chunks
    /\ chunks[<<1, 0>>].status = "stored"
    /\ chunks[<<1, 1>>].status = "failed"

\* C6: the Replica rows of a stored chunk name exactly the nodes that
\* acknowledged the write to replicate_chunk (stated for chunks whose task
\* was executed once).
ReplicaRowsAreAcks ==
    \A c \in DOMAIN chunks :
        (chunks[c].status = "stored" /\ rtask[c].runs = 1) =>
            ReplicaNodes(c) = rtask[c].nodes \ rtask[c].failed_nodes

\* C7: when the only execution of a chunk's task got fewer than the quorum
\* of acknowledgements, the upload ends with an error answer, the File is
\* failed and the chunk is not stored.
WriteFailsClosed ==
    \A c \in DOMAIN rtask :
        (/\ up[c[1]].pc = "done"
         /\ rtask[c].runs = 1
         /\ rtask[c].status = "failed") =>
            /\ up[c[1]].code # 200
            /\ c[1] \in DOMAIN files => files[c[1]].status = "failed"
            /\ c \in DOMAIN chunks => chunks[c].status # "stored"

\* C14: an execution of replicate_chunk for a chunk that already has a
\* quorum of Replica rows leaves the Replica rows and the status of the
\* Chunk as they are and ends without raising, whatever the nodes answer.
IdempotentReplicate ==
    [][\A c \in DOMAIN rtask \cap DOMAIN chunks :
          (/\ rtask'[c].runs # rtask[c].runs
           /\ Cardinality(ReplicaNodes(c)) >= Quorum(REPLICATION_FACTOR)) =>
              /\ replicas' = replicas
              /\ chunks'[c].status = chunks[c].status
              /\ ~rtask'[c].raised]_vars

\* C15: the chunk_count of a committed File is the number of Chunk rows with
\* its file_id, and their chunk_index values are exactly 0..chunk_count-1.
ChunkRowsComplete ==
    \A f \in DOMAIN files :
        /\ Cardinality(ChunksOf(f)) = files[f].chunk_count
        /\ {chunks[c].chunk_index : c \in ChunksOf(f)} =
               0..(files[f].chunk_count - 1)

\* The sum of the sizes of a set of Chunk rows.
RECURSIVE SumSizes(_)
SumSizes(S) ==
    IF S = {}
    THEN 0
    ELSE LET c == CHOOSE x \in S : TRUE
         IN  chunks[c].size + SumSizes(S \ {c})

\* C16: chunk_count is the ceiling of size / CHUNK_SIZE; every chunk but the
\* last has CHUNK_SIZE bytes, the last has between 1 and CHUNK_SIZE; the
\* size of a Chunk row is the length of the payload of its task; and the
\* sizes of the chunks of a file that has all its chunks sum to its size.
ChunkGeometry ==
    \A f \in DOMAIN files :
        LET n == files[f].chunk_count
        IN  /\ n * CHUNK_SIZE >= files[f].size
            /\ n * CHUNK_SIZE < files[f].size + CHUNK_SIZE
            /\ \A c \in ChunksOf(f) :
                  /\ chunks[c].chunk_index < n
                  /\ chunks[c].chunk_index < n - 1 =>
                        chunks[c].size = CHUNK_SIZE
                  /\ chunks[c].size >= 1
                  /\ chunks[c].size <= CHUNK_SIZE
                  /\ c \in DOMAIN rtask => Len(rtask[c].data) = chunks[c].size
            /\ Cardinality(ChunksOf(f)) = n =>
                  SumSizes(ChunksOf(f)) = files[f].size

\* A committed file of three bytes: a chunk of CHUNK_SIZE bytes and a last
\* chunk of one byte.
ChunkGeometryWitness ==
    /\ 1 \in DOMAIN files
    /\ files[1].size = 3
    /\ files[1].chunk_count = 2
    /\ <<1, 1>> \in DOMAIN chunks
    /\ chunks[<<1, 0>>].size = CHUNK_SIZE
    /\ chunks[<<1, 1>>].size = 1

\* C17: the status of a committed File changes only from completed to
\* verified or from completed to corrupted, and a File is first committed
\* as completed or failed.
FileLifecycle ==
    [][\A f \in DOMAIN files' :
          IF f \in DOMAIN files
          THEN files'[f].status # files[f].status =>
                  /\ files[f].status = "completed"
                  /\ files'[f].status \in {"verified", "corrupted"}
          ELSE files'[f].status \in {"completed", "failed"}]_vars

\* C18: a Chunk that is committed as failed stays failed and gets no Replica
\* row.
FailedIsTerminal ==
    [][\A c \in DOMAIN chunks :
          chunks[c].status = "failed" =>
             /\ chunks'[c].status = "failed"
             /\ ReplicaNodes(c)' = ReplicaNodes(c)]_vars

\* C5: an execution of replicate_chunk posts the chunk to every node of its
\* placement set, whatever the other nodes answer; the nodes it counts hold
\* the payload; and its result is stored exactly when success_count is at
\* least floor(R/2)+1, R being the replication factor it was passed, and
\* failed otherwise.
ReplicateOutcome ==
    \A c \in DOMAIN rtask :
        rtask[c].status # "-" =>
            LET t == rtask[c]
                acked == t.nodes \ t.failed_nodes
            IN  /\ t.posted = t.nodes
                /\ t.success_count = Cardinality(acked)
                /\ \A n \in acked :
                      c \in DOMAIN blobs[n] /\ blobs[n][c] = t.data
                /\ t.status \in {"stored", "failed"}
                /\ t.status = "stored" <=> t.success_count >= t.rf \div 2 + 1

\* Both nodes of a placement of two acknowledged and the result is failed,
\* because the task was passed a replication factor of four.
ReplicateOutcomeWitness ==
    \E c \in DOMAIN rtask :
        /\ rtask[c].status = "failed"
        /\ rtask[c].rf = 4
        /\ Cardinality(rtask[c].nodes) = 2
        /\ rtask[c].success_count = 2

\* ----------------------------------------------------- verification

\* The replica nodes of chunk c whose chunk file has the SHA-256 of the
\* Chunk row.
GoodHolders(c) ==
    {n \in Holders(c) : calculate_checksum(blobs[n][c]) = chunks[c].checksum}

\* C11: an execution of verify_file_integrity that fetched every chunk sets
\* the File to verified when every replica node of every chunk holds bytes
\* that match the stored digest, and it reports a checksum mismatch (File
\* corrupted) only for a chunk that no replica node holds intact.
VerifySound ==
    [][\A f \in DOMAIN vtask \cap DOMAIN files :
          vtask'[f].runs # vtask[f].runs =>
             /\ (/\ vtask'[f].not_found = {}
                 /\ \A c \in ChunksOf(f) : GoodHolders(c) = Holders(c)) =>
                    files'[f].status = "verified"
             /\ \A c \in vtask'[f].mismatch : GoodHolders(c) = {}]_vars

\* ------------------------------------------------------- read path

\* C20: every value the cache serves is a value that was read from the
\* authoritative source when it was cached: a file_metadata entry is the
\* File row, and what get_chunk_data returns for a chunk is what a replica
\* node returned for it (in these runs File rows and chunk files do not
\* change once they are written).
CacheServesSourceValues ==
    /\ \A f \in DOMAIN fileMeta :
          f \in DOMAIN files /\ fileMeta[f] = files[f]
    /\ \A c \in DOMAIN chunkCache :
          get_chunk_data(c).kind # "none" => get_chunk_data(c) \in Fetched(c)

\* C21: once a File row has been written or its status changed, the
\* user_files entry of its owner that was cached before the change is
\* gone: every cached listing shows the owner's rows as they are committed
\* now.
CacheInvalidatedOnMutation ==
    \A o \in DOMAIN userFiles : userFiles[o].items = QueryFiles(o).items

\* What download_file answers to user req for file f when nothing is cached
\* and the replica nodes return p.
DirectResult(req, f, p) ==
    LET order == Ascending({chunks[c].chunk_index : c \in ChunksOf(f)})
    IN  IF \E c \in ChunksOf(f) : p[c].kind = "none"
        THEN [NoDownload EXCEPT !.req = req, !.code = 500,
                                !.err = "chunk_unavailable"]
        ELSE [NoDownload EXCEPT !.req = req, !.code = 200, !.avail = TRUE,
                 !.parts = [k \in DOMAIN order |->
                               p[ChunkAt(f, order[k])].val]]

DirectDownload(req, f) ==
    IF f \in DOMAIN files /\ files[f].owner = req
    THEN {DirectResult(req, f, p) : p \in Picks(f)}
    ELSE {[NoDownload EXCEPT !.req = req, !.code = 404, !.err = "not_found"]}

\* What download_shared_file answers for a token when nothing is cached.
DirectShared(token) ==
    LET r == [NoSharedDownload EXCEPT !.token = token]
    IN  IF token \notin DOMAIN shares
        THEN {[r EXCEPT !.code = 404, !.err = "share_not_found"]}
        ELSE IF /\ shares[token].expires_at.kind = "datetime"
                /\ shares[token].expires_at.t < now
        THEN {[r EXCEPT !.code = 410, !.err = "expired"]}
        ELSE {[r EXCEPT !.code = d.code, !.err = d.err, !.parts = d.parts] :
                 d \in DirectDownload(shares[token].owner,
                                      shares[token].file_id)}

\* C22: a request that is handled while every command of the cache store
\* raises gets the answer it would get with an empty cache: list_files the
\* owner's rows, download_file and download_shared_file what the metadata
\* store and the replica nodes give, upload_file its 200; an accepted GET
\* on a share is counted on the row; and no entry of the cache is written
\* or deleted by the handlers.
CacheFaultsDegrade ==
    [][cacheDown /\ cacheDown' =>
          /\ lst' # lst => lst'.body = QueryFiles(lst'.req)
          /\ dl' # dl => \E f \in FileIds : dl' \in DirectDownload(dl'.req, f)
          /\ sdl' # sdl =>
                /\ sdl' \in DirectShared(sdl'.token)
                /\ sdl'.code \in {200, 500} =>
                      shares'[sdl'.token].access_count =
                         shares[sdl'.token].access_count + 1
          /\ \A u \in FileIds : up'[u] # up[u] =>
                up'[u].code = 200 /\ u \in DOMAIN files'
          /\ <<fileMeta, chunkCache, userFiles, shareInfo>>' =
                <<fileMeta, chunkCache, userFiles, shareInfo>>]_vars

\* An upload was committed and its owner's listing was then read from the
\* rows, both while the cache store was failing: the listing cached before
\* the upload is still in the store.
CacheFaultsDegradeWitness ==
    /\ cacheDown
    /\ "alice" \in DOMAIN userFiles
    /\ DOMAIN userFiles["alice"].items = {}
    /\ lst.req = "alice"
    /\ DOMAIN lst.body.items # {}
    /\ dl.code = 200
    /\ sdl.code = 200

\* C23: between a set(k, v, expire) that succeeded and the next delete of
\* k or the end of the TTL, get(k) returns v and invalidate of k returns
\* True; after a delete or after the TTL, get(k) returns None.
KeySemantics ==
    \A k \in Keys :
        LET held == /\ k \in DOMAIN kvSet
                    /\ \/ kvSet[k].expire = NoTtl
                       \/ kvClock < kvSet[k].at + kvSet[k].expire
        IN  /\ CmGetResult(k) = IF held
                                THEN [kind |-> "value", v |-> kvSet[k].val]
                                ELSE [kind |-> "none"]
            /\ held => CmDeleteResult(k)

\* C24: a run of cleanup_expired_shares deletes the Share rows whose
\* expires_at is earlier than now, all of them, and leaves every other
\* Share row and every File, Chunk and Replica row as it was.
ExpireSharesFrame ==
    [][sweep' # sweep =>
          /\ DOMAIN shares' =
                {t \in DOMAIN shares :
                    ~ (/\ shares[t].expires_at.kind = "datetime"
                       /\ shares[t].expires_at.t < now)}
          /\ \A t \in DOMAIN shares' : shares'[t] = shares[t]
          /\ sweep'.expired_shares_removed =
                Cardinality(DOMAIN shares \ DOMAIN shares')
          /\ <<files, chunks, replicas>>' = <<files, chunks, replicas>>]_vars

\* A run has deleted a row while a row without expiry and a row that
\* expires now or later were in the table.
ExpireSharesFrameWitness ==
    /\ sweep.runs >= 1
    /\ sweep.expired_shares_removed >= 1
    /\ \E t \in DOMAIN shares : shares[t].expires_at.kind = "none"
    /\ \E t \in DOMAIN shares :
          /\ shares[t].expires_at.kind = "datetime"
          /\ shares[t].expires_at.t >= now
    /\ files # Empty

\* No store of chunk id is between its open and its answer.
NoStoreInProgress(id) ==
    \A r \in Requests :
        ~ (nreq[r].op = "store" /\ nreq[r].id = id /\ nreq[r].pc # "done")

\* C25: on a node that handles its requests one after another, from a
\* store of id with payload P that succeeded until the next store or
\* delete of id, retrieve of id answers exactly P and info the size |P|; a
\* store that finds the file of id holding P already leaves it holding P,
\* and no store touches the file of another id; every store that succeeds
\* answers the digest
\* and the size of its payload; retrieve and info of an id that is not
\* stored answer 404.
StoreRetrieve ==
    [][/\ \A id \in DOMAIN lastStored' :
             /\ RetrieveResult(id)' = [code |-> 200, body |-> lastStored'[id]]
             /\ InfoResult(id)' = [code |-> 200, size |-> Len(lastStored'[id])]
       /\ \A id \in ChunkIds :
             (id \notin DOMAIN lastStored' /\ NoStoreInProgress(id)') =>
                /\ RetrieveResult(id)'.code = 404
                /\ InfoResult(id)'.code = 404
       /\ \A r \in Requests :
             (nreq[r].pc = "close" /\ nreq'[r].pc = "done") =>
                /\ nreq'[r].code = 200
                /\ nreq'[r].checksum = calculate_checksum(nreq[r].data)
                /\ nreq'[r].size = Len(nreq[r].data)
                /\ nreq[r].before = [kind |-> "bytes", val |-> nreq[r].data]
                      => FileOf(nreq[r].id)' = nreq[r].before
       /\ \A r \in Requests, id \in ChunkIds :
             (nreq'[r] # nreq[r] /\ nreq'[r].op = "store"
                 /\ id # nreq'[r].id) => FileOf(id)' = FileOf(id)]_vars

\* A store of a payload of one byte or more that found the same payload
\* under the same id has succeeded, while a file of another id is on the
\* node.
StoreRetrieveWitness ==
    \E r \in Requests :
        /\ nreq[r].op = "store" /\ nreq[r].pc = "done" /\ nreq[r].code = 200
        /\ Len(nreq[r].data) >= 1
        /\ nreq[r].before = [kind |-> "bytes", val |-> nreq[r].data]
        /\ lastStored[nreq[r].id] = nreq[r].data
        /\ DOMAIN Disk # {nreq[r].id}

\* C26: once every store that was sent to the node has been answered, the
\* file of a chunk id holds exactly the payload of one of the stores of
\* that id that succeeded.
StoresConverge ==
    (\A r \in Requests : nreq[r].pc \in {"idle", "done"}) =>
        \A id \in DOMAIN lastStored :
            /\ id \in DOMAIN Disk
            /\ Disk[id] \in {nreq[r].data :
                               r \in {q \in Requests :
                                        /\ nreq[q].op = "store"
                                        /\ nreq[q].id = id
                                        /\ nreq[q].code = 200}}

\* C27: a register call whose username or email is that of a User row gets
\* 400 and writes nothing, any other call gets 200 and adds its row; no
\* two User rows have the same username or the same email.
UniqueUsers ==
    [][/\ (users' # users \/ reg' # reg) =>
             IF \E u \in DOMAIN users :
                   \/ users[u].username = reg'.username
                   \/ users[u].email = reg'.email
             THEN reg'.code = 400 /\ users' = users
             ELSE /\ reg'.code = 200
                  /\ DOMAIN users' = DOMAIN users \cup {reg'.user_id}
                  /\ reg'.user_id \notin DOMAIN users
                  /\ users'[reg'.user_id] =
                        [username |-> reg'.username, email |-> reg'.email]
                  /\ \A u \in DOMAIN users : users'[u] = users[u]
       /\ \A a, b \in DOMAIN users' :
             a # b => /\ users'[a].username # users'[b].username
                      /\ users'[a].email # users'[b].email]_vars

\* Two users are registered and a call that repeated the email of one of
\* them under a new username was rejected.
UniqueUsersWitness ==
    /\ Cardinality(DOMAIN users) >= 2
    /\ reg.code = 400
    /\ \E u \in DOMAIN users : users[u].email = reg.email
    /\ \A u \in DOMAIN users : users[u].username # reg.username

\* C28: the placement set of every chunk holds only nodes that are up and
\* has min(R, number of nodes that are up) nodes; when fewer nodes than
\* the quorum are up, no write of the chunk is sent to a node.
PlacementHealthy ==
    \A c \in DOMAIN rtask :
        /\ rtask[c].nodes \subseteq healthy
        /\ Cardinality(rtask[c].nodes) =
              Min(REPLICATION_FACTOR, Cardinality(healthy))
        /\ Cardinality(healthy) < Quorum(REPLICATION_FACTOR) =>
              rtask[c].posted = {}

\* The nodes that hold a file for chunk c.
BlobNodes(c) == {n \in STORAGE_NODES : c \in DOMAIN blobs[n]}

\* C29: the commit of an upload in which the chunk with index k was not
\* stored writes that chunk and the File as failed, no task was sent and no
\* row is written for a chunk with an index above k, and every chunk with
\* an index below k is written as stored with its Replica rows, while its
\* files stay on a quorum of the nodes: the commit removes no file.
PartialWritePolicy ==
    [][\A u \in FileIds :
          (up[u].pc = "commit" /\ up'[u].pc = "done" /\ up'[u].code = 200) =>
              \A k \in DOMAIN up[u].chs :
                  up[u].chs[k] = "failed" =>
                      /\ chunks'[<<u, k>>].status = "failed"
                      /\ files'[u].status = "failed"
                      /\ \A i \in 0..(MaxChunks - 1) :
                            i > k => /\ <<u, i>> \notin DOMAIN rtask'
                                     /\ <<u, i>> \notin DOMAIN chunks'
                      /\ \A i \in 0..(MaxChunks - 1) :
                            i < k => /\ <<u, i>> \in DOMAIN chunks'
                                     /\ chunks'[<<u, i>>].status = "stored"
                                     /\ ReplicaNodes(<<u, i>>)' =
                                           rtask[<<u, i>>].nodes
                                     /\ Cardinality(BlobNodes(<<u, i>>)') >=
                                           Quorum(REPLICATION_FACTOR)
                      /\ blobs' = blobs]_vars

\* An upload of two chunks has returned after the second chunk was not
\* stored: the first chunk is stored with its Replica rows and its files,
\* the second is failed, the file is failed.
PartialWritePolicyWitness ==
    /\ up[1].pc = "done"
    /\ up[1].i = 1
    /\ 1 \in DOMAIN files
    /\ files[1].status = "failed"
    /\ <<1, 1>> \in DOMAIN chunks
    /\ chunks[<<1, 1>>].status = "failed"
    /\ chunks[<<1, 0>>].status = "stored"
    /\ ReplicaNodes(<<1, 0>>) # {}
    /\ BlobNodes(<<1, 0>>) # {}
    /\ rtask[<<1, 0>>].runs = 1
    /\ <<1, 1>> \in DOMAIN rtask

\* C30: every Replica row in the committed store belongs to a Chunk row
\* whose status is stored.
ReplicasOnlyForStored ==
    \A r \in replicas :
        /\ r[1] \in DOMAIN chunks
        /\ chunks[r[1]].status = "stored"

\* C31: when an execution of replicate_chunk that runs while the upload
\* waits for it returns a status, the Chunk row in the committed store has
\* that status after the execution, and for stored the Replica rows of the
\* acknowledging nodes are in the store.
TaskWritesChunkRow ==
    [][\A c \in DOMAIN rtask :
          (/\ up[c[1]].pc = "await"
           /\ up[c[1]].i = c[2]
           /\ rtask'[c].runs # rtask[c].runs
           /\ ~rtask'[c].raised) =>
              /\ c \in DOMAIN chunks'
              /\ chunks'[c].status = rtask'[c].status
              /\ rtask'[c].status = "stored" =>
                    {<<c, n>> : n \in rtask'[c].nodes \ rtask'[c].failed_nodes}
                        \subseteq replicas']_vars

\* C32: upload_file leaves the wait for a chunk's task with the chunk
\* stored only when the task has returned stored; when the deadline passes
\* without a result the chunk and the File become failed and the loop
\* ends; the commit writes the statuses and Replica rows of the session,
\* and a chunk whose task was never sent or has not run is written as
\* failed in a failed File.
DeadlineAndCommitOrder ==
    [][\A u \in FileIds :
          /\ (up[u].pc = "await" /\ up'[u] # up[u]) =>
                LET c == <<u, up[u].i>>
                IN  /\ up'[u].chs[up[u].i] = "stored" =>
                          rtask[c].status = "stored"
                    /\ rtask[c].status # "stored" =>
                          /\ up'[u].chs[up[u].i] = "failed"
                          /\ up'[u].fstatus = "failed"
                          /\ up'[u].pc = "commit"
                          /\ up'[u].reps = up[u].reps
                    /\ UNCHANGED <<chunks, replicas, files>>
          /\ (up[u].pc = "commit" /\ up'[u].pc = "done" /\ up'[u].code = 200) =>
                /\ replicas' = replicas \cup up[u].reps
                /\ \A i \in DOMAIN up[u].chs :
                      /\ chunks'[<<u, i>>].status = up[u].chs[i]
                      /\ (<<u, i>> \notin DOMAIN rtask \/ rtask[<<u, i>>].runs = 0) =>
                            /\ chunks'[<<u, i>>].status = "failed"
                            /\ ReplicaNodes(<<u, i>>)' = {}
                            /\ files'[u].status = "failed"]_vars

\* An upload has committed after the deadline of its chunk's task passed:
\* the task has not run, the chunk and the File are failed.
DeadlineAndCommitOrderWitness ==
    /\ up[1].pc = "done"
    /\ up[1].code = 200
    /\ <<1, 0>> \in DOMAIN rtask
    /\ rtask[<<1, 0>>].runs = 0
    /\ <<1, 0>> \in DOMAIN chunks
    /\ chunks[<<1, 0>>].status = "failed"
    /\ files[1].status = "failed"

\* C33: a replicate_chunk message is retried at most 3 times, each retry
\* 60 s after the attempt that raised, and after the last one the task
\* ends in a failure; and an execution whose outcome the answers of the
\* nodes decide (the database was reachable) returns its result and
\* schedules no retry.
BoundedRetry ==
    [][\A c \in DOMAIN rtask :
          rtask'[c].runs # rtask[c].runs =>
              /\ retry'[c].retries <= MAX_RETRIES
              /\ retry'[c].state = "RETRY" =>
                    retry'[c].countdown = RETRY_COUNTDOWN
              /\ (c \in DOMAIN retry /\ retry[c].state = "RETRY"
                    /\ retry[c].retries = MAX_RETRIES) =>
                    retry'[c].state \in {"SUCCESS", "FAILURE"}
              /\ ~retry'[c].transient =>
                    /\ retry'[c].state = "SUCCESS"
                    /\ ~rtask'[c].raised]_vars

\* C34: after an execution of verify_file_integrity the list of corrupted
\* chunks has an entry with expected_checksum exactly for the chunks whose
\* fetched bytes do not hash to the stored digest, an entry chunk_not_found
\* exactly for the chunks for which no replica node returned data, and no
\* other entry; the File is corrupted exactly when the list is not empty,
\* and the status returned is the status of the File row.
CorruptedListExact ==
    [][\A f \in DOMAIN vtask \cap DOMAIN files :
          (vtask'[f].runs # vtask[f].runs /\ f \in DOMAIN vfetched') =>
              LET p == vfetched'[f]
                  entries == vtask'[f].mismatch \cup vtask'[f].not_found
              IN  /\ vtask'[f].mismatch =
                        {c \in ChunksOf(f) :
                            /\ p[c].kind # "none"
                            /\ calculate_checksum(p[c].val) # chunks[c].checksum}
                  /\ vtask'[f].not_found =
                        {c \in ChunksOf(f) : p[c].kind = "none"}
                  /\ vtask'[f].mismatch \cap vtask'[f].not_found = {}
                  /\ files'[f].status = "corrupted" <=> entries # {}
                  /\ files'[f].status = "verified" <=> entries = {}
                  /\ vtask'[f].status = files'[f].status]_vars

\* C35: a run of health_check_storage_nodes records one status for every
\* configured node: healthy exactly when the node answered 200, offline
\* exactly when the request timed out or failed, unhealthy for any other
\* answer; and when the cache store answers, the snapshot of all nodes is
\* in the store afterwards with a TTL of 300 s under the key that
\* get_storage_node_health reads.
ProbeSnapshot ==
    [][probe'.runs # probe.runs =>
          /\ DOMAIN probe'.node_status = STORAGE_NODES
          /\ \A n \in STORAGE_NODES :
                /\ probe'.node_status[n] = "healthy" <=>
                      probe'.answers[n] = "200"
                /\ probe'.node_status[n] = "offline" <=>
                      probe'.answers[n] = "timeout"
                /\ probe'.node_status[n] = "unhealthy" <=>
                      probe'.answers[n] \notin {"200", "timeout"}
          /\ ~cacheDown =>
                /\ HEALTH_KEY \in DOMAIN nodesHealth'
                /\ nodesHealth'[HEALTH_KEY].val = probe'.node_status
                /\ nodesHealth'[HEALTH_KEY].ttl = 300]_vars

\* A run has probed a node that answered 200, a node that answered with
\* an error and a node that did not answer, and has written the snapshot.
ProbeSnapshotWitness ==
    /\ probe.runs > 0
    /\ probe.status = "success"
    /\ probe.answers["n1"] = "timeout"
    /\ probe.answers["n2"] = "503"
    /\ probe.answers["n3"] = "200"
    /\ HEALTH_KEY \in DOMAIN nodesHealth
    /\ nodesHealth[HEALTH_KEY].val = probe.node_status

\* C36: when an execution of verify_file_integrity finds that the bytes
\* of a chunk do not hash to its stored digest, the chunk_data entry of
\* that chunk is gone from the cache afterwards, so that no later download
\* is served the chunk from an entry that was there before.
MismatchInvalidatesChunkData ==
    [][\A f \in DOMAIN vtask :
          vtask'[f].runs # vtask[f].runs =>
              \A c \in vtask'[f].mismatch : c \notin DOMAIN chunkCache']_vars

\* C37: an execution of verify_file_integrity sets the File to verified
\* only when, for every Chunk row of the file, a replica node of the chunk
\* returned bytes that hash to the stored digest; a file with a chunk that
\* has no Replica row, or for which no replica node returned data, is not
\* set to verified.
VerifiedOnlyIfAllMatch ==
    [][\A f \in DOMAIN vtask \cap DOMAIN files :
          (vtask'[f].runs # vtask[f].runs /\ f \in DOMAIN vfetched') =>
              LET p == vfetched'[f]
              IN  /\ files'[f].status = "verified" =>
                        \A c \in ChunksOf(f) :
                            /\ p[c].kind = "bytes"
                            /\ calculate_checksum(p[c].val) = chunks[c].checksum
                            /\ \E n \in ReplicaNodes(c) :
                                  /\ c \in DOMAIN blobs[n]
                                  /\ blobs[n][c] = p[c].val
                  /\ (\E c \in ChunksOf(f) :
                         ReplicaNodes(c) = {} \/ p[c].kind = "none") =>
                        files'[f].status # "verified"]_vars

\* A file of two chunks was set to verified by an execution that fetched
\* both chunks.
VerifiedOnlyIfAllMatchWitness ==
    /\ 1 \in DOMAIN files
    /\ files[1].status = "verified"
    /\ files[1].chunk_count = 2
    /\ 1 \in DOMAIN vfetched
    /\ vtask[1].runs = 1
    /\ \A c \in ChunksOf(1) : vfetched[1][c].kind = "bytes"

\* C38: when every download_shared_file request on a token has been
\* answered, the access counter persisted for the share is the number of
\* the requests that were accepted, whether or not the requests
\* overlapped.
NoLostCount ==
    (\A r \in Requests : sreq[r].pc \in {"idle", "done"}) =>
        \A t \in DOMAIN shares :
            shares[t].access_count =
                Cardinality({r \in Requests :
                                /\ sreq[r].pc = "done"
                                /\ sreq[r].token = t
                                /\ sreq[r].accepted})

\* C39: a list_files call that is made after upload_file has returned with
\* the File committed returns a listing that contains that file, also when
\* another list_files call of the owner overlapped the upload.
ListingFreshAfterUpload ==
    [][\A u \in FileIds :
          (/\ lst' # lst
           /\ up[u].pc = "done"
           /\ u \in DOMAIN files
           /\ files[u].owner = lst'.req) =>
              u \in DOMAIN lst'.body.items]_vars

\* C40: a retrieve of a chunk id is answered 404 or with the complete
\* payload of a store of that id: the one of the store in progress, or the
\* one the file held before it.
NoTornRead ==
    [][\A r \in Requests :
          (/\ nreq'[r] # nreq[r]
           /\ nreq'[r].op = "retrieve"
           /\ nreq'[r].code # 404) =>
              /\ nreq'[r].code = 200
              /\ \/ /\ nreq'[r].id \in DOMAIN lastStored
                    /\ nreq'[r].body = lastStored[nreq'[r].id]
                 \/ \E q \in Requests :
                       /\ nreq[q].op = "store"
                       /\ nreq[q].id = nreq'[r].id
                       /\ nreq[q].pc # "idle"
                       /\ nreq[q].code # 413
                       /\ \/ nreq'[r].body = nreq[q].data
                          \/ nreq[q].before = [kind |-> "bytes",
                                               val |-> nreq'[r].body]]_vars

\* C1: a download by the owner of a completed file, made while every chunk
\* has a replica node that answers, returns the bytes that were uploaded,
\* and their SHA-256 is the checksum of the File row.
RoundTrip ==
    \A f \in DOMAIN files :
        (/\ dl.code \notin {0, 404}
         /\ dl.req = files[f].owner
         /\ dl.avail
         /\ files[f].status = "completed") =>
            /\ dl.code = 200
            /\ Join(dl.parts) = up[f].data
            /\ calculate_checksum(Join(dl.parts)) = files[f].checksum

\* C8: download_file returns the bytes of a file only to its owner.
OwnerOnlyDownload ==
    dl.code = 200 => \E f \in DOMAIN files : files[f].owner = dl.req

\* C9: every chunk payload that a download of a completed file returns has
\* the SHA-256 that is stored in its Chunk row.
ReadIntegrity ==
    \A f \in DOMAIN files :
        (dl.code = 200 /\ files[f].status = "completed") =>
            \A k \in DOMAIN dl.parts :
                calculate_checksum(dl.parts[k]) = chunks[ChunkAt(f, k - 1)].checksum

\* C10: a download of a completed file succeeds with the uploaded bytes
\* whenever every chunk has at least one replica node that answers, and it
\* fails for an unavailable chunk only when the cache missed and every
\* replica node of some chunk failed.
ReadSurvivesReplicaLoss ==
    \A f \in DOMAIN files :
        /\ (/\ dl.code \notin {0, 404}
            /\ files[f].status = "completed"
            /\ dl.avail) =>
               (dl.code = 200 /\ Join(dl.parts) = up[f].data)
        /\ dl.err = "chunk_unavailable" =>
               (~dl.avail /\ \E c \in ChunksOf(f) : ~Truthy(get_chunk_data(c)))

\* C19: every File that is committed as completed is eventually moved to
\* verified or corrupted by an execution of verify_file_integrity.
CompletedEventuallyVerified ==
    \A f \in FileIds :
        (f \in DOMAIN files /\ files[f].status = "completed") ~>
            (f \in DOMAIN files /\
                files[f].status \in {"verified", "corrupted"})

\* ------------------------------------------------------------ shares

\* C12: a GET on a share token whose expires_at is earlier than now is
\* answered Expired (410) without file bytes and leaves the access counter
\* of the share unchanged, whether the share record is read from the
\* metadata store or from the share_info cache.
ShareExpiry ==
    [][\A t \in DOMAIN shareLog \cap DOMAIN shares :
          (/\ shareLog'[t].gets # shareLog[t].gets
           /\ shares[t].expires_at.kind = "datetime"
           /\ shares[t].expires_at.t < now) =>
              /\ sdl'.code = 410
              /\ sdl'.parts = <<>>
              /\ shares'[t].access_count = shares[t].access_count]_vars

\* C13: the access counter persisted for a share equals the number of GETs
\* on its token that were accepted (share found, not expired).
ShareAccessCount ==
    \A t \in DOMAIN shares : shares[t].access_count = shareLog[t].accepted

\* ------------------------------------------------------ specifications

\* The payloads of a chunk.
ChunkPayloads == {d \in Contents : Len(d) >= 1 /\ Len(d) <= CHUNK_SIZE}


\* The write path: uploads and the task runner, with re-deliveries.
\* Downloads and cache expiry change neither the metadata store, nor the
\* task queue, nor the storage nodes.
NextWrite ==
    \/ \E u \in FileIds : UploadStart(u)
    \/ \E u \in FileIds : UploadTaskReturned(u)
    \/ \E u \in FileIds : UploadTaskTimeout(u)
    \/ \E u \in FileIds : UploadFinish(u)
    \/ \E u \in FileIds : UploadCommit(u)
    \/ \E c \in ChunkIds : ReplicateRun(c)
    \/ \E f \in FileIds : VerifyRun(f)

SpecWrite == Init /\ [][NextWrite]_vars

\* The read path: uploads, downloads and the cache, in runs where the broker
\* delivers every replicate_chunk message once, verify_file_integrity is
\* not executed and no chunk file is damaged.
NextRead ==
    \/ \E u \in FileIds : UploadStart(u)
    \/ \E u \in FileIds : UploadTaskReturned(u)
    \/ \E u \in FileIds : UploadTaskTimeout(u)
    \/ \E u \in FileIds : UploadFinish(u)
    \/ \E u \in FileIds : UploadCommit(u)
    \/ \E c \in ChunkIds : ReplicateFirst(c)
    \/ \E req \in Users, f \in FileIds : DownloadFile(req, f)
    \/ \E f \in FileIds : ExpireFileMetadata(f)
    \/ \E c \in ChunkIds : ExpireChunkData(c)

SpecRead == Init /\ [][NextRead]_vars

\* The read path with damaged chunk files, in runs that fit in the TTLs of
\* the cache.
NextDamage ==
    \/ \E u \in FileIds : UploadStart(u)
    \/ \E u \in FileIds : UploadTaskReturned(u)
    \/ \E u \in FileIds : UploadTaskTimeout(u)
    \/ \E u \in FileIds : UploadFinish(u)
    \/ \E u \in FileIds : UploadCommit(u)
    \/ \E c \in ChunkIds : ReplicateFirst(c)
    \/ \E req \in Users, f \in FileIds : DownloadFile(req, f)
    \/ \E n \in STORAGE_NODES, c \in ChunkIds : CorruptBlob(n, c)

SpecDamage == Init /\ [][NextDamage]_vars

\* Verification of files whose chunk files may be damaged, in runs where
\* every task message is executed once.
VerifyFirst(f) ==
    /\ f \in DOMAIN vtask
    /\ vtask[f].runs = 0
    /\ VerifyRun(f)

NextVerify ==
    \/ \E u \in FileIds : UploadStart(u)
    \/ \E u \in FileIds : UploadTaskReturned(u)
    \/ \E u \in FileIds : UploadTaskTimeout(u)
    \/ \E u \in FileIds : UploadFinish(u)
    \/ \E u \in FileIds : UploadCommit(u)
    \/ \E c \in ChunkIds : ReplicateFirst(c)
    \/ \E f \in FileIds : VerifyFirst(f)
    \/ \E n \in STORAGE_NODES, c \in ChunkIds : CorruptBlob(n, c)

SpecVerify == Init /\ [][NextVerify]_vars

\* Verification of files whose chunk files may be overwritten or left
\* empty, in runs where every task message is executed once.
NextAudit ==
    \/ \E u \in FileIds : UploadStart(u)
    \/ \E u \in FileIds : UploadTaskReturned(u)
    \/ \E u \in FileIds : UploadTaskTimeout(u)
    \/ \E u \in FileIds : UploadFinish(u)
    \/ \E u \in FileIds : UploadCommit(u)
    \/ \E c \in ChunkIds : ReplicateFirst(c)
    \/ \E f \in FileIds : VerifyObserved(f)
    \/ \E n \in STORAGE_NODES, c \in ChunkIds : CorruptBlob(n, c)
    \/ \E n \in STORAGE_NODES, c \in ChunkIds : TruncateBlob(n, c)

SpecAudit == Init /\ [][NextAudit]_vars

\* Listings next to uploads and verification, in runs where
\* every task message is executed once.
NextList ==
    \/ \E u \in FileIds : UploadStart(u)
    \/ \E u \in FileIds : UploadTaskReturned(u)
    \/ \E u \in FileIds : UploadTaskTimeout(u)
    \/ \E u \in FileIds : UploadFinish(u)
    \/ \E u \in FileIds : UploadCommit(u)
    \/ \E c \in ChunkIds : ReplicateFirst(c)
    \/ \E f \in FileIds : VerifyFirst(f)
    \/ \E req \in Users : ListFiles(req)
    \/ \E req \in Users : ExpireUserFiles(req)

SpecList == Init /\ [][NextList]_vars

\* An older file of the uploader: an empty file, which has no chunk, after
\* its verification.
OlderFile == 2

\* Listings of an owner who has a file and uploads another one, by
\* requests that overlap the upload and by requests made after it, in runs
\* where every task message is executed once.
InitOverlap ==
    /\ files = (OlderFile :>
                  [owner |-> "alice", size |-> 0,
                   checksum |-> calculate_checksum(<<>>),
                   chunk_count |-> 0, status |-> "verified"])
    /\ chunks = Empty
    /\ replicas = {}
    /\ up = [u \in FileIds |-> IdleUpload]
    /\ rtask = Empty
    /\ vtask = (OlderFile :> [NewVerify EXCEPT !.runs = 1,
                                               !.status = "verified"])
    /\ blobs = [n \in STORAGE_NODES |-> Empty]
    /\ fileMeta = Empty
    /\ chunkCache = Empty
    /\ dl = NoDownload
    /\ redelivered = 0
    /\ InitShares
    /\ InitLists
    /\ InitAux

NextOverlap ==
    \/ \E u \in FileIds : UploadStart(u)
    \/ \E u \in FileIds : UploadTaskReturned(u)
    \/ \E u \in FileIds : UploadTaskTimeout(u)
    \/ \E u \in FileIds : UploadFinish(u)
    \/ \E u \in FileIds : UploadCommit(u)
    \/ \E c \in ChunkIds : ReplicateFirst(c)
    \/ \E r \in Overlapping, req \in Uploaders : ListRead(r, req)
    \/ \E r \in Overlapping : ListWrite(r)
    \/ \E req \in Uploaders : ListFiles(req)

SpecOverlap == InitOverlap /\ [][NextOverlap]_vars

\* The write path with workers that keep running: every enabled step of an
\* upload is taken, every task message is delivered and executed once, and
\* the beat schedule keeps sending its daily message.
NextLive ==
    \/ \E u \in FileIds : UploadStart(u)
    \/ \E u \in FileIds : UploadTaskReturned(u)
    \/ \E u \in FileIds : UploadTaskTimeout(u)
    \/ \E u \in FileIds : UploadFinish(u)
    \/ \E u \in FileIds : UploadCommit(u)
    \/ \E c \in ChunkIds : ReplicateFirst(c)
    \/ \E f \in FileIds : VerifyFirst(f)
    \/ VerifySweep

SpecLive ==
    /\ Init
    /\ [][NextLive]_vars
    /\ \A u \in FileIds :
          /\ WF_vars(UploadTaskReturned(u) \/ UploadTaskTimeout(u))
          /\ WF_vars(UploadFinish(u))
          /\ WF_vars(UploadCommit(u))
    /\ \A c \in ChunkIds : WF_vars(ReplicateFirst(c))
    /\ \A f \in FileIds : WF_vars(VerifyFirst(f))
    /\ WF_vars(VerifySweep)

\* The state in which an upload of one chunk, whose task was acknowledged
\* by the nodes acked, has returned.
CompletedFile(data, acked) ==
    LET s == [IdleUpload EXCEPT !.pc = "done", !.owner = "alice",
                                !.data = data, !.fstatus = "completed",
                                !.chs = (0 :> "stored"),
                                !.reps = {<<<<1, 0>>, n>> : n \in STORAGE_NODES},
                                !.code = 200, !.status = "completed"]
    IN  /\ up = [u \in FileIds |-> s]
        /\ files = (1 :> FileRow(1, s))
        /\ chunks = (<<1, 0>> :> ChunkRow(1, s, 0))
        /\ replicas = s.reps
        /\ rtask = (<<1, 0>> :>
                      [NewTask(data, STORAGE_NODES) EXCEPT
                          !.runs = 1, !.posted = STORAGE_NODES,
                          !.status = "stored",
                          !.success_count = Cardinality(acked),
                          !.failed_nodes = STORAGE_NODES \ acked])
        /\ vtask = (1 :> NewVerify)
        /\ blobs = [n \in STORAGE_NODES |->
                       IF n \in acked THEN (<<1, 0>> :> data) ELSE Empty]
        /\ fileMeta = Empty
        /\ chunkCache = Empty
        /\ dl = NoDownload
        /\ redelivered = 0

\* Requests of an uploader while the cache store may fail, from the state
\* in which the task of the only chunk of the upload has returned "stored"
\* with every node's acknowledgement and the handler is about to commit.
InitFault ==
    \E data \in ChunkPayloads, acked \in {STORAGE_NODES} :
        /\ up = [u \in FileIds |->
                   [IdleUpload EXCEPT !.pc = "commit", !.owner = "alice",
                       !.data = data, !.fstatus = "completed",
                       !.chs = (0 :> "stored"),
                       !.reps = {<<<<u, 0>>, n>> : n \in STORAGE_NODES}]]
        /\ files = Empty
        /\ chunks = Empty
        /\ replicas = {}
        /\ rtask = (<<1, 0>> :>
                      [NewTask(data, STORAGE_NODES) EXCEPT
                          !.runs = 1, !.posted = STORAGE_NODES,
                          !.status = "stored",
                          !.success_count = Cardinality(acked),
                          !.failed_nodes = STORAGE_NODES \ acked])
        /\ vtask = (1 :> NewVerify)
        /\ blobs = [n \in STORAGE_NODES |->
                       IF n \in acked THEN (<<1, 0>> :> data) ELSE Empty]
        /\ fileMeta = Empty
        /\ chunkCache = Empty
        /\ dl = NoDownload
        /\ redelivered = 0
        /\ InitShares
        /\ InitLists
        /\ InitAux

NextFault ==
    \/ \E u \in FileIds : UploadCommit(u)
    \/ \E req \in Uploaders : ListFiles(req)
    \/ \E req \in Uploaders, f \in FileIds : DownloadFile(req, f)
    \/ \E req \in Users, f \in FileIds, hours \in ShareHours,
          token \in ShareTokens : CreateShare(req, f, hours, token)
    \/ \E token \in ShareTokens : DownloadShared(token)
    \/ CacheFail
    \/ CacheRecover

SpecFault == InitFault /\ [][NextFault]_vars

\* Runs of cleanup_expired_shares on tables of Share rows of one completed
\* file, as time passes.
SweepTokens == {"t1", "t2", "t3"}

InitSweep ==
    \E data \in {<<"a">>}, acked \in {STORAGE_NODES},
       present \in SUBSET SweepTokens :
       \E exp \in [present -> {NoExpiry} \cup
                      {[kind |-> "datetime", t |-> h] : h \in 0..MaxTime}] :
        /\ CompletedFile(data, acked)
        /\ shares = [t \in present |->
                       [file_id |-> 1, owner |-> "alice",
                        expires_at |-> exp[t], access_count |-> 0]]
        /\ shareLog = [t \in present |-> [gets |-> 0, accepted |-> 0]]
        /\ shareInfo = Empty
        /\ now = 0
        /\ sdl = NoSharedDownload
        /\ InitLists
        /\ InitAux

NextSweep ==
    \/ CleanupExpiredShares
    \/ Tick

SpecSweep == InitSweep /\ [][NextSweep]_vars

\* One storage node that handles its requests one after another: the next
\* request arrives when the one before it has been answered.
OneAtATime == {"r1"}

NextNode ==
    \/ \E r \in OneAtATime, id \in ChunkIds, data \in NodePayloads :
          StoreChunkOpen(r, id, data)
    \/ \E r \in OneAtATime : StoreChunkWrite(r)
    \/ \E r \in OneAtATime : StoreChunkReturn(r)
    \/ \E r \in OneAtATime, id \in ChunkIds : RetrieveChunk(r, id)
    \/ \E r \in OneAtATime, id \in ChunkIds : GetChunkInfo(r, id)
    \/ \E r \in OneAtATime, id \in ChunkIds : DeleteChunk(r, id)

SpecNode == Init /\ [][NextNode]_vars

\* One storage node that handles stores at the same time: each request
\* is sent once, and the handlers run interleaved at their awaits.
StoreOnce(r, id, data) ==
    /\ nreq[r].pc = "idle"
    /\ StoreChunkOpen(r, id, data)

NextRace ==
    \/ \E r \in Requests, id \in ChunkIds, data \in NodePayloads :
          StoreOnce(r, id, data)
    \/ \E r \in Requests : StoreChunkWrite(r)
    \/ \E r \in Requests : StoreChunkReturn(r)

SpecRace == Init /\ [][NextRace]_vars

\* One storage node that handles a retrieve while a store is at its awaits:
\* the stores are the requests of one client, one after the other, and the
\* retrieves are those of another.
Readers == Requests \ OneAtATime

NextTorn ==
    \/ \E r \in OneAtATime, id \in ChunkIds, data \in NodePayloads :
          StoreChunkOpen(r, id, data)
    \/ \E r \in OneAtATime : StoreChunkWrite(r)
    \/ \E r \in OneAtATime : StoreChunkReturn(r)
    \/ \E r \in Readers, id \in ChunkIds : RetrieveChunk(r, id)

SpecTorn == Init /\ [][NextTorn]_vars

\* Calls of register.
NextAuth ==
    \E username \in Usernames, email \in Emails : Register(username, email)

SpecAuth == Init /\ [][NextAuth]_vars

\* Uploads while some of the storage nodes are down: a node that is down
\* acknowledges nothing.
ReplicateUp(c) ==
    /\ ReplicateFirst(c)
    /\ (rtask'[c].posted \ rtask'[c].failed_nodes) \subseteq healthy

InitPlace ==
    /\ InitShares
    /\ InitLists
    /\ InitRest
    /\ InitStore
    /\ healthy \in SUBSET STORAGE_NODES

NextPlace ==
    \/ \E u \in FileIds : UploadStart(u)
    \/ \E u \in FileIds : UploadTaskReturned(u)
    \/ \E u \in FileIds : UploadTaskTimeout(u)
    \/ \E u \in FileIds : UploadFinish(u)
    \/ \E u \in FileIds : UploadCommit(u)
    \/ \E c \in ChunkIds : ReplicateUp(c)

SpecPlace == InitPlace /\ [][NextPlace]_vars

\* Calls of the CacheManager methods on a store that answers.
NextCache ==
    \/ \E k \in Keys, v \in CacheValues, expire \in Ttls : CmSet(k, v, expire)
    \/ \E k \in Keys : CmGet(k)
    \/ \E k \in Keys : CmDelete(k)
    \/ CmTick

SpecCache == Init /\ [][NextCache]_vars

\* Shares of one completed one-chunk file: the state in which an upload
\* whose task was acknowledged by a quorum has returned.
InitShare ==
    \E data \in ChunkPayloads,
       acked \in {S \in SUBSET STORAGE_NODES :
                    QuorumReached(Cardinality(S), REPLICATION_FACTOR)} :
        /\ CompletedFile(data, acked)
        /\ InitShares
        /\ InitLists
        /\ InitAux

NextShare ==
    \/ \E req \in Users, f \in FileIds, hours \in ShareHours,
          token \in ShareTokens : CreateShare(req, f, hours, token)
    \/ \E token \in ShareTokens : DownloadShared(token)
    \/ \E token \in ShareTokens : ExpireShareInfo(token)
    \/ Tick

SpecShare == InitShare /\ [][NextShare]_vars

\* Requests on share tokens of one completed file that overlap, in runs
\* that fit in the TTL of the cache.
NextShareRace ==
    \/ \E req \in Users, f \in FileIds, hours \in ShareHours,
          token \in ShareTokens : CreateShare(req, f, hours, token)
    \/ \E r \in Requests, token \in ShareTokens : ShareLookup(r, token)
    \/ \E r \in Requests : ShareCache(r)
    \/ \E r \in Requests : ShareCommit(r)

SpecShareRace == InitShare /\ [][NextShareRace]_vars

\* Downloads and verification of one completed one-chunk file whose chunk
\* files may be overwritten, in runs that fit in the TTLs of the cache.
NextStale ==
    \/ \E req \in Uploaders, f \in FileIds : DownloadFile(req, f)
    \/ \E n \in STORAGE_NODES, c \in ChunkIds : CorruptBlob(n, c)
    \/ \E f \in FileIds : VerifyFirst(f)

SpecStale == InitShare /\ [][NextStale]_vars

\* replicate_chunk on its own: one message whose arguments are drawn from
\* all placements and replication factors, executed while its upload is
\* still open (no committed Chunk row) or after its upload gave up waiting
\* and committed the chunk as failed.
InitTask ==
    \E nodes \in SUBSET STORAGE_NODES \ {{}}, rf \in 1..MaxRf,
       data \in ChunkPayloads, late \in BOOLEAN :
        LET s == [IdleUpload EXCEPT !.pc = IF late THEN "done" ELSE "await",
                                    !.owner = "alice", !.data = data,
                                    !.fstatus = IF late THEN "failed"
                                                        ELSE "uploading",
                                    !.chs = (0 :> IF late THEN "failed"
                                                          ELSE "pending"),
                                    !.code = IF late THEN 200 ELSE 0,
                                    !.status = IF late THEN "failed" ELSE "-"]
        IN  /\ up = [u \in FileIds |-> s]
            /\ rtask = (<<1, 0>> :> [NewTask(data, nodes) EXCEPT !.rf = rf])
            /\ files = IF late THEN (1 :> FileRow(1, s)) ELSE Empty
            /\ chunks = IF late THEN (<<1, 0>> :> ChunkRow(1, s, 0)) ELSE Empty
            /\ replicas = {}
            /\ vtask = Empty
            /\ blobs = [n \in STORAGE_NODES |-> Empty]
            /\ fileMeta = Empty
            /\ chunkCache = Empty
            /\ dl = NoDownload
            /\ redelivered = 0
            /\ InitShares
            /\ InitLists
            /\ InitAux

NextTask == \E c \in ChunkIds : ReplicateRun(c)

SpecTask == InitTask /\ [][NextTask]_vars

\* The worker on one replicate_chunk message, with its retries and with a
\* database that can be unavailable.
NextRetry ==
    \/ \E c \in ChunkIds : TaskDelivered(c)
    \/ \E c \in ChunkIds : TaskRetried(c)

SpecRetry == InitTask /\ [][NextRetry]_vars

\* The periodic probe of the storage nodes and the coordinator's GET
\* /health, with a cache store that can fail.
NextProbe ==
    \/ ProbeNodes
    \/ ExpireNodesHealth
    \/ HealthCheck
    \/ CacheFail
    \/ CacheRecover

SpecProbe == Init /\ [][NextProbe]_vars

====
